---- MODULE Spec2Model ----
(***************************************************************************)
(* A model of the dataset pipeline of preprocessing_exclude_with_rules:    *)
(* the model response handler (cache, three-tier reply parsing, retry),   *)
(* the AST extractor with its content-hash cache, the rule relevance      *)
(* filter, and the per-file pipeline of the dataset generator.            *)
(*                                                                         *)
(* Text is a sequence of lexemes ("atoms"): each punctuation mark the      *)
(* code looks at is one atom, and so is each word.  A JSON value is a      *)
(* tagged record: [t |-> "str", s |-> atoms], [t |-> "num", d |-> digits], *)
(* [t |-> "lit", v |-> word], [t |-> "list", l |-> values],                *)
(* [t |-> "obj", o |-> <<key, value>> pairs in document order].            *)
(***************************************************************************)
EXTENDS Integers, Sequences, FiniteSets, TLC

VARIABLES
    \* ---- reply parser (ClaudeHandler._parse_response) ----
    text,        \* the reply text being parsed
    ppc,         \* position in _parse_response: "tier1", "tier2", "tier3", "done"
    consulted,   \* the tiers whose try-block has run
    presult,     \* the value _parse_response returned (None until done)
    ptier        \* the tier that produced presult (0: the final default)

parserVars == <<text, ppc, consulted, presult, ptier>>

VARIABLES
    \* ---- response handler (ClaudeHandler) ----
    respCache,   \* CACHE_DIR: prompt -> cache file (missing, or its text)
    hpc,         \* position in generate_identifiers
    hprompt,     \* the prompt of the current call
    huse,        \* use_cache of the current generate_identifiers call
    hresult,     \* the value generate_identifiers returned
    hnet,        \* messages.create calls made by the current invocation
    hreply,      \* response.content[0].text of the current invocation
    hwrite,      \* what the cache write of the current invocation did ("none":
                 \* there was none)
    hentry,      \* the cache file of hprompt as it was when the invocation began
    rpc,         \* position in generate_with_retry
    rmax,        \* max_retries
    rattempt,    \* the loop variable attempt
    rsleeps,     \* the arguments of time.sleep, in call order
    rcalls,      \* generate_identifiers calls made by the current generate_with_retry
    rlog,        \* outcome of each of those calls: "ok" or "fail"
    rresult      \* the value generate_with_retry returned

genVars == <<hpc, hprompt, huse, hresult, hnet, hreply, hwrite, hentry>>
retryVars == <<rpc, rmax, rattempt, rsleeps, rcalls, rlog, rresult>>
handlerVars == <<respCache, genVars, retryVars>>

VARIABLES
    \* ---- AST extractor (ASTAnalyzer) ----
    astCache,        \* AST_CACHE_DIR: source text -> cache file (missing, or its text)
    analyzerExists,  \* self.analyzer_path.exists()
    astUseCache,     \* self.use_cache
    elog,            \* one record per extract_ast call, in call order
    erun             \* what subprocess.run did in the latest extract_ast call (None:
                     \* it was not called)

extractorVars == <<astCache, analyzerExists, astUseCache, elog, erun>>

VARIABLES
    \* ---- rule filter (RuleFilter) ----
    fyaml,       \* the rule file given to the constructor
    frules,      \* self.all_rules
    fast,        \* the ast_data argument of filter_rules_for_file
    fmax,        \* the max_rules argument
    fpc,         \* "new", "start" (constructed), "filtered" (filter_rules_for_file
                 \* returned), "formatted", "raised" (left by an exception)
    fids,        \* file_identifiers of the filter_rules_for_file call
    ffiltered,   \* the list filter_rules_for_file returned
    ftext        \* the text format_rules_for_prompt returned

filterVars == <<fyaml, frules, fast, fmax, fpc, fids, ffiltered, ftext>>

VARIABLES
    \* ---- dataset generator (DatasetGenerator) ----
    pfiles,      \* swift_files: the sorted file list, each file with its text
    pparallel,   \* the use_parallel argument of generate_dataset
    porch,       \* position of generate_dataset: "submit", "collect", "seq", "done"
    pnext,       \* the loop index i of the submitting / sequential loop
    pstage,      \* per file: how far its process_single_file call has come
    pframe,      \* per file: the locals of its process_single_file call
    poutput,     \* the lines written to OUTPUT_JSONL, each with the file it is of
    psuccess     \* success_count

pipelineVars == <<pfiles, pparallel, porch, pnext, pstage, pframe, poutput, psuccess>>

VARIABLES
    \* ---- generate_dataset over several runs, process_single_file reduced to
    \* ---- whether it returns an entry ----
    bcall,       \* the run scenario: file count, use_parallel, the files without entry
    bpc,         \* position of generate_dataset: "enter", "submit", "collect", "seq",
                 \* "done", "killed" (the process was terminated)
    bi,          \* the loop index i of the submitting / sequential loop
    bskip,       \* len(processed_files)
    bfut,        \* per file: "idle", "skipped", "submitted", "running", "entry", "none",
                 \* "written",
                 \* "collected"
    bout,        \* the text of OUTPUT_JSONL: records and newlines
    bwriting,    \* the files whose record is written and not yet flushed
    bsuccess,    \* success_count
    bruns,       \* the runs of generate_dataset begun so far
    bexit,       \* what main returned to exit(): <<>> while main has not returned
    bdone,       \* the files whose process_single_file call has returned and whose
                 \* result is not yet taken, in the order of their return
    bfirst,      \* the futures as_completed found finished when it was called
    bstart       \* the length of the output text when the run began

batchOrder == <<bdone, bfirst, bstart>>
batchVars == <<bcall, bpc, bi, bskip, bfut, bout, bwriting, bsuccess, bruns, bexit, batchOrder>>

VARIABLES
    \* ---- the text entry point (ASTAnalyzer.extract_ast_from_code) ----
    tpc,         \* "idle", "created", "returned" (extract_ast returned), "raised" (it
                 \* was left by an exception), "done", "propagated"
    ttemp,       \* the temporary files that exist
    tpath,       \* temp_path: the temporary file of the current call
    tresult      \* the value extract_ast_from_code returned

tempVars == <<tpc, ttemp, tpath, tresult>>

VARIABLES
    \* ---- the inference generator (generate_real_world_inference.py) ----
    ifiles,      \* swift_files: the sorted file list
    inext,       \* the loop index i
    ipc,         \* "off", "next" (head of the loop), "loaded", "extracted",
                 \* "filtered", "returned", "done"
    iframe,      \* the locals of the process_single_file call
    ioutput      \* the entries written to output_jsonl

inferVars == <<ifiles, inext, ipc, iframe, ioutput>>

VARIABLES
    \* ---- pool workers at one cache entry (extract_ast, generate_identifiers) ----
    ckind,       \* the cache of the entry: "ast" or "response"
    cfile,       \* the file of the entry: missing, or its text
    cw           \* per worker: where its call is, the document it writes, the offset of
                 \* its file object, and the value its cache check returned

raceVars == <<ckind, cfile, cw>>

vars == <<parserVars, handlerVars, extractorVars, filterVars, pipelineVars, batchVars,
          tempVars, inferVars, raceVars>>

\* the variables of the other components, which a component's steps leave alone
outsideParser == <<handlerVars, extractorVars, filterVars, pipelineVars, batchVars, tempVars, inferVars, raceVars>>
outsideHandler == <<parserVars, extractorVars, filterVars, pipelineVars, batchVars, tempVars, inferVars, raceVars>>
outsideExtractor == <<parserVars, handlerVars, filterVars, pipelineVars, batchVars, tempVars, inferVars, raceVars>>
outsideFilter == <<parserVars, handlerVars, extractorVars, pipelineVars, batchVars, tempVars, inferVars, raceVars>>
\* the pipeline uses both caches
outsidePipeline == <<parserVars, genVars, retryVars, analyzerExists, astUseCache, elog,
                     erun, filterVars, batchVars, tempVars, inferVars, raceVars>>
outsideRace == <<parserVars, handlerVars, extractorVars, filterVars, pipelineVars, batchVars,
                 tempVars, inferVars>>
outsideBatch == <<parserVars, handlerVars, extractorVars, filterVars, pipelineVars, tempVars, inferVars, raceVars>>
\* the text entry point calls extract_ast
outsideTemp == <<parserVars, handlerVars, analyzerExists, astUseCache, filterVars,
                 pipelineVars, batchVars, inferVars, raceVars>>
\* the inference generator calls extract_ast
outsideInfer == <<parserVars, handlerVars, analyzerExists, astUseCache, elog, erun,
                  filterVars, pipelineVars, batchVars, tempVars, raceVars>>

(***************************************************************************)
(* Python values                                                           *)
(***************************************************************************)
None == [kind |-> "none"]
Resp(ids) == [kind |-> "resp", identifiers |-> ids]

Q == "\""
NL == "\n"
BS == "\\"
\* the code-fence marker (three backticks), one atom
FENCE == "<fence>"
Whitespace == {" ", NL}
Digits == {"0", "7"}
Literals == {"true", "false", "null"}

JStr(s) == [t |-> "str", s |-> s]
JNum(d) == [t |-> "num", d |-> d]
JLit(w) == [t |-> "lit", v |-> w]
JList(l) == [t |-> "list", l |-> l]
JObj(o) == [t |-> "obj", o |-> o]

(***************************************************************************)
(* str methods and slices                                                  *)
(***************************************************************************)
Slice(s, i, j) == IF i > j THEN <<>> ELSE SubSeq(s, i, j)

RECURSIVE LStrip(_)
LStrip(s) == IF s # <<>> /\ Head(s) \in Whitespace THEN LStrip(Tail(s)) ELSE s

RECURSIVE RStrip(_)
RStrip(s) ==
    IF s # <<>> /\ s[Len(s)] \in Whitespace THEN RStrip(Slice(s, 1, Len(s) - 1)) ELSE s

Strip(s) == RStrip(LStrip(s))

StartsWith(s, p) == Len(s) >= Len(p) /\ Slice(s, 1, Len(p)) = p

EndsWith(s, p) == Len(s) >= Len(p) /\ Slice(s, Len(s) - Len(p) + 1, Len(s)) = p

RemovePrefix(s, p) == IF StartsWith(s, p) THEN Slice(s, Len(p) + 1, Len(s)) ELSE s

RemoveSuffix(s, p) == IF EndsWith(s, p) THEN Slice(s, 1, Len(s) - Len(p)) ELSE s

\* the first position >= i that holds atom a, Len(s) + 1 when there is none
NextAt(s, i, a) ==
    LET hits == {k \in i..Len(s) : s[k] = a} IN
    IF hits = {} THEN (IF i > Len(s) THEN i ELSE Len(s) + 1)
    ELSE CHOOSE k \in hits : \A j \in hits : k <= j

\* the last position <= i that holds atom a, 0 when there is none
PrevAt(s, i, a) ==
    LET hits == {k \in 1..i : s[k] = a} IN
    IF hits = {} THEN (IF i < 1 THEN i ELSE 0)
    ELSE CHOOSE k \in hits : \A j \in hits : k >= j

\* str.find / str.rfind of one atom: 0 stands for Python's -1, positions are 1-based
Find(s, a) == IF NextAt(s, 1, a) > Len(s) THEN 0 ELSE NextAt(s, 1, a)

RFind(s, a) == IF Len(s) = 0 THEN 0 ELSE PrevAt(s, Len(s), a)

(***************************************************************************)
(* json.loads on atom text                                                 *)
(***************************************************************************)
RECURSIVE SkipWs(_, _)
SkipWs(s, i) == IF i <= Len(s) /\ s[i] \in Whitespace THEN SkipWs(s, i + 1) ELSE i

RECURSIVE DigitsEnd(_, _)
DigitsEnd(s, i) == IF i <= Len(s) /\ s[i] \in Digits THEN DigitsEnd(s, i + 1) ELSE i

Fail == [ok |-> FALSE]
Ok(v, i) == [ok |-> TRUE, v |-> v, i |-> i]

RECURSIVE ParseValue(_, _)
RECURSIVE ParseArrayRest(_, _, _)
RECURSIVE ParseObjectRest(_, _, _)

\* the zero byte: what a file holds where nothing was written
NUL == "\\0"

\* the body of a JSON string from position k on, up to its closing quote: a raw
\* control character is rejected (strict mode), a backslash escapes a quote, a
\* backslash or the letter n; no other escape occurs in the texts of this model
RECURSIVE StringBody(_, _, _)
StringBody(s, k, acc) ==
    IF k > Len(s) \/ s[k] \in {NL, NUL} THEN Fail
    ELSE IF s[k] = Q THEN Ok(JStr(acc), k + 1)
    ELSE IF s[k] = BS THEN
        IF k + 1 > Len(s) THEN Fail
        ELSE IF s[k + 1] = Q THEN StringBody(s, k + 2, Append(acc, Q))
        ELSE IF s[k + 1] = BS THEN StringBody(s, k + 2, Append(acc, BS))
        ELSE IF s[k + 1] = "n" THEN StringBody(s, k + 2, Append(acc, NL))
        ELSE Fail
    ELSE StringBody(s, k + 1, Append(acc, s[k]))

\* a JSON string starting at the quote s[i]
ParseString(s, i) == StringBody(s, i + 1, <<>>)

ParseValue(s, i0) ==
    LET i == SkipWs(s, i0) IN
    IF i > Len(s) THEN Fail
    ELSE IF s[i] = Q THEN ParseString(s, i)
    ELSE IF s[i] \in Digits THEN
        LET e == DigitsEnd(s, i) IN
        IF e - i > 1 /\ s[i] = "0" THEN Ok(JNum(<<"0">>), i + 1)
        ELSE Ok(JNum(Slice(s, i, e - 1)), e)
    ELSE IF s[i] \in Literals THEN Ok(JLit(s[i]), i + 1)
    ELSE IF s[i] = "[" THEN
        LET j == SkipWs(s, i + 1) IN
        IF j <= Len(s) /\ s[j] = "]" THEN Ok(JList(<<>>), j + 1)
        ELSE ParseArrayRest(s, i + 1, <<>>)
    ELSE IF s[i] = "{" THEN
        LET j == SkipWs(s, i + 1) IN
        IF j <= Len(s) /\ s[j] = "}" THEN Ok(JObj(<<>>), j + 1)
        ELSE ParseObjectRest(s, i + 1, <<>>)
    ELSE Fail

\* after "[" or ",": one value, then "," or "]"
ParseArrayRest(s, i, acc) ==
    LET r == ParseValue(s, i) IN
    IF ~r.ok THEN Fail
    ELSE LET j == SkipWs(s, r.i) IN
         IF j > Len(s) THEN Fail
         ELSE IF s[j] = "," THEN ParseArrayRest(s, j + 1, Append(acc, r.v))
         ELSE IF s[j] = "]" THEN Ok(JList(Append(acc, r.v)), j + 1)
         ELSE Fail

\* after "{" or ",": "key" : value, then "," or "}"
ParseObjectRest(s, i0, acc) ==
    LET i == SkipWs(s, i0) IN
    IF i > Len(s) \/ s[i] # Q THEN Fail
    ELSE LET k == ParseString(s, i) IN
         IF ~k.ok THEN Fail
         ELSE LET c == SkipWs(s, k.i) IN
              IF c > Len(s) \/ s[c] # ":" THEN Fail
              ELSE LET r == ParseValue(s, c + 1) IN
                   IF ~r.ok THEN Fail
                   ELSE LET j == SkipWs(s, r.i) IN
                        IF j > Len(s) THEN Fail
                        ELSE IF s[j] = "," THEN
                            ParseObjectRest(s, j + 1, Append(acc, <<k.v.s, r.v>>))
                        ELSE IF s[j] = "}" THEN
                            Ok(JObj(Append(acc, <<k.v.s, r.v>>)), j + 1)
                        ELSE Fail

\* json.loads: one value and nothing but whitespace after it; Fail is the raise
JsonLoads(s) ==
    LET r == ParseValue(s, 1) IN
    IF r.ok /\ SkipWs(s, r.i) > Len(s) THEN r ELSE Fail

(***************************************************************************)
(* Python truthiness, str() and repr() of a decoded JSON value             *)
(***************************************************************************)
PyTruthy(v) ==
    CASE v.t = "str" -> v.s # <<>>
      [] v.t = "num" -> v.d # <<"0">>
      [] v.t = "lit" -> v.v = "true"
      [] v.t = "list" -> v.l # <<>>
      [] v.t = "obj" -> v.o # <<>>

RECURSIVE PyRepr(_)
RECURSIVE PyReprItems(_)
RECURSIVE PyReprPairs(_)

\* repr of the characters of a str: a newline and a backslash are escaped, and
\* so is the delimiting quote when the str holds both kinds of quote
RECURSIVE ReprChars(_, _)
ReprChars(s, both) ==
    IF s = <<>> THEN <<>>
    ELSE (IF Head(s) = NL THEN <<BS, "n">>
          ELSE IF Head(s) = BS THEN <<BS, BS>>
          ELSE IF Head(s) = "'" /\ both THEN <<BS, "'">>
          ELSE <<Head(s)>>) \o ReprChars(Tail(s), both)

Contains(s, a) == \E i \in 1..Len(s) : s[i] = a

ReprStr(s) ==
    IF Contains(s, "'") /\ ~Contains(s, Q)
    THEN <<Q>> \o ReprChars(s, FALSE) \o <<Q>>
    ELSE <<"'">> \o ReprChars(s, Contains(s, "'")) \o <<"'">>

PyRepr(v) ==
    CASE v.t = "str" -> ReprStr(v.s)
      [] v.t = "num" -> v.d
      [] v.t = "lit" -> (IF v.v = "true" THEN <<"True">>
                         ELSE IF v.v = "false" THEN <<"False">> ELSE <<"None">>)
      [] v.t = "list" -> <<"[">> \o PyReprItems(v.l) \o <<"]">>
      [] v.t = "obj" -> <<"{">> \o PyReprPairs(v.o) \o <<"}">>

PyReprItems(l) ==
    IF l = <<>> THEN <<>>
    ELSE IF Len(l) = 1 THEN PyRepr(l[1])
    ELSE PyRepr(l[1]) \o <<",", " ">> \o PyReprItems(Tail(l))

PyReprPairs(o) ==
    IF o = <<>> THEN <<>>
    ELSE LET one == ReprStr(o[1][1]) \o <<":", " ">> \o PyRepr(o[1][2]) IN
         IF Len(o) = 1 THEN one ELSE one \o <<",", " ">> \o PyReprPairs(Tail(o))

\* dict semantics of a decoded object: a repeated key keeps its first position
\* and its last value
RECURSIVE DictOf(_)
DictOf(o) ==
    IF o = <<>> THEN <<>>
    ELSE LET init == DictOf(Slice(o, 1, Len(o) - 1))
             last == o[Len(o)]
         IN IF \E i \in 1..Len(init) : init[i][1] = last[1]
            THEN [i \in 1..Len(init) |->
                     IF init[i][1] = last[1] THEN last ELSE init[i]]
            ELSE Append(init, last)

PyStr(v) == IF v.t = "str" THEN v.s ELSE PyRepr(v)

HasKey(o, k) == \E i \in 1..Len(o) : o[i][1] = k

\* data[k] of a decoded object
Lookup(o, k) ==
    LET i == CHOOSE i \in 1..Len(o) : o[i][1] = k /\ \A j \in (i + 1)..Len(o) : o[j][1] # k
    IN o[i][2]

\* [str(id).strip() for id in items if id]
RECURSIVE CoerceIdentifiers(_)
CoerceIdentifiers(items) ==
    IF items = <<>> THEN <<>>
    ELSE IF PyTruthy(Head(items))
         THEN <<Strip(PyStr(Head(items)))>> \o CoerceIdentifiers(Tail(items))
         ELSE CoerceIdentifiers(Tail(items))

(***************************************************************************)
(* ClaudeHandler._parse_response: the three tiers.  Each returns the       *)
(* response its try-block returns, or None when the block falls through    *)
(* (no result, or an exception swallowed by its bare except).              *)
(***************************************************************************)
\* re.sub(r'/\*.*?\*/', '', s, flags=re.DOTALL)
RECURSIVE StripBlockComments(_)
StripBlockComments(s) ==
    LET i == NextAt(s, 1, "/*") IN
    IF i > Len(s) THEN s
    ELSE LET j == NextAt(s, i + 1, "*/") IN
         IF j > Len(s) THEN s
         ELSE Slice(s, 1, i - 1) \o StripBlockComments(Slice(s, j + 1, Len(s)))

\* re.sub(r'//.*?$', '', s, flags=re.MULTILINE)
RECURSIVE StripLineComments(_)
StripLineComments(s) ==
    LET i == NextAt(s, 1, "//") IN
    IF i > Len(s) THEN s
    ELSE LET j == NextAt(s, i + 1, NL) IN
         Slice(s, 1, i - 1) \o StripLineComments(Slice(s, j, Len(s)))

CleanText(response_text) ==
    Strip(RemoveSuffix(
        RemovePrefix(RemovePrefix(Strip(response_text), <<FENCE, "json">>), <<FENCE>>),
        <<FENCE>>))

Tier1(response_text) ==
    LET clean_text == CleanText(response_text)
        start_idx == Find(clean_text, "{")
        end_idx == RFind(clean_text, "}")
    IN IF start_idx = 0 \/ end_idx = 0 THEN None
       ELSE LET json_str == StripLineComments(StripBlockComments(
                                Slice(clean_text, start_idx, end_idx)))
                data == JsonLoads(json_str)
            IN IF ~data.ok THEN None
               ELSE IF data.v.t = "obj" /\ HasKey(data.v.o, <<"identifiers">>)
                       /\ Lookup(data.v.o, <<"identifiers">>).t = "list"
                    THEN Resp(CoerceIdentifiers(Lookup(data.v.o, <<"identifiers">>).l))
                    ELSE None

\* re.search(r'\[([^\]]+)\]', s): the leftmost "[" whose next "]" is not adjacent
ArrayMatch(s) ==
    LET Matches(i) == s[i] = "[" /\ NextAt(s, i + 1, "]") <= Len(s)
                      /\ NextAt(s, i + 1, "]") > i + 1
    IN IF \E i \in 1..Len(s) : Matches(i)
       THEN LET i == CHOOSE i \in 1..Len(s) : Matches(i) /\ \A k \in 1..(i - 1) : ~Matches(k)
            IN <<i, NextAt(s, i + 1, "]")>>
       ELSE <<0, 0>>

Tier2(response_text) ==
    LET m == ArrayMatch(response_text) IN
    IF m[1] = 0 THEN None
    ELSE LET array_str == <<"[">> \o Slice(response_text, m[1] + 1, m[2] - 1) \o <<"]">>
             identifiers == JsonLoads(array_str)
         IN IF ~identifiers.ok THEN None
            ELSE Resp(CoerceIdentifiers(identifiers.v.l))

\* re.findall(r'"([^"]+)"', s) from position i on
\* The scan pairs the quotes from the left: a quote opens a match unless it
\* closes one, and a quote directly followed by a quote opens nothing (the
\* group needs one character).  So a quote closes a match exactly when an odd
\* number of quotes lies between it and the start of its run, a run starting
\* at the first quote and after every quote that directly follows a quote.
\* the quotes a run starts at
RunStarts(quotes) == {h \in quotes : h - 1 \in quotes \/ \A g \in quotes : g >= h}

ClosingQuotes(quotes, starts) ==
    {p \in quotes :
        \E r \in {h \in starts : h <= p /\ \A g \in starts : g <= p => g <= h} :
            Cardinality({h \in quotes : r < h /\ h <= p}) % 2 = 1}

QuotedBefore(s, quotes, closers) ==
    [n \in 1..Cardinality(closers) |->
        LET p == CHOOSE c \in closers : Cardinality({d \in closers : d <= c}) = n
            a == CHOOSE h \in quotes : h < p /\ \A g \in quotes : g < p => g <= h
        IN Slice(s, a + 1, p - 1)]

FindQuoted(s, i) ==
    CHOOSE found \in UNION {{QuotedBefore(s, quotes, closers)
                                : closers \in {ClosingQuotes(quotes, RunStarts(quotes))}}
                            : quotes \in {{k \in i..Len(s) : s[k] = Q}}} : TRUE

StopList ==
    {<<"identifiers">>, <<"reasoning">>, <<"error">>, <<"exclusions">>, <<"evidence">>}

Tier3Cap == 100

KeepQuoted(id) ==
    /\ id \notin StopList
    /\ Len(id) > 0
    /\ ~StartsWith(id, <<"is_">>)
    /\ ~StartsWith(id, <<"This", " ">>)

\* the third try-block without the slice of line 146
Tier3Uncapped(response_text) ==
    LET filtered == SelectSeq(FindQuoted(response_text, 1), KeepQuoted) IN
    IF filtered # <<>> THEN Resp(filtered) ELSE None

Tier3(response_text) ==
    LET filtered == SelectSeq(FindQuoted(response_text, 1), KeepQuoted) IN
    IF filtered # <<>>
    THEN Resp(Slice(filtered, 1, IF Len(filtered) < Tier3Cap THEN Len(filtered) ELSE Tier3Cap))
    ELSE None

\* the value of _parse_response(response_text)
ParseResponse(response_text) ==
    IF Tier1(response_text) # None THEN Tier1(response_text)
    ELSE IF Tier2(response_text) # None THEN Tier2(response_text)
    ELSE IF Tier3(response_text) # None THEN Tier3(response_text)
    ELSE Resp(<<>>)

(***************************************************************************)
(* The reply parser as a state machine: one step per try-block of          *)
(* _parse_response, in the order the code runs them.                       *)
(***************************************************************************)
MaxShortLen == 3

ShortAlphabet == {"{", "}", "[", "]", Q, "a", ",", " "}

\* every text of at most MaxShortLen atoms over ShortAlphabet
ShortTexts == UNION {[1..n -> ShortAlphabet] : n \in 0..MaxShortLen}

IdentifiersObject(items) == <<"{", Q, "identifiers", Q, ":", " ", "[">> \o items \o <<"]", "}">>

AB == <<Q, "a", Q, ",", Q, "b", Q>>
XY == <<Q, "x", Q, ",", " ", Q, "y", Q>>

\* '```json\n{"identifiers": ["a","b"]}\n```'
FencedAB == <<FENCE, "json", NL>> \o IdentifiersObject(AB) \o <<NL, FENCE>>

\* 'here you go: ["x", "y"]'
HereXY == <<"here", " ", "you", " ", "go", ":", " ", "[">> \o XY \o <<"]">>

\* 'random text "foo" "bar" "is_valid" "This is a comment"'
QuotedWords ==
    <<"random", " ", "text", " ", Q, "foo", Q, " ", Q, "bar", Q, " ", Q, "is_", "valid", Q,
      " ", Q, "This", " ", "is", " ", "a", " ", "comment", Q>>

\* 'no structured content at all'
NoStructure == <<"no", " ", "structured", " ", "content", " ", "at", " ", "all">>

ReplyPrefixes == {<<>>, <<FENCE, "json", NL>>, <<FENCE, NL>>, <<"here", ":", " ">>,
                  <<"[", "]", " ">>, <<Q, "foo", Q, " ">>}

ReplyBodies ==
    {IdentifiersObject(AB),
     IdentifiersObject(<<>>),
     IdentifiersObject(<<Q, " ", "a", " ", Q, ",", "0", ",", Q, Q, ",", Q, " ", Q, ",", "7">>),
     IdentifiersObject(<<"true", ",", "false", ",", "null", ",", "[", Q, "b", Q, "]">>),
     IdentifiersObject(<<Q, "a", Q, ",">>),
     <<"{", Q, "identifiers", Q, ":", Q, "a", Q, "}">>,
     <<"{", Q, "ids", Q, ":", "[", Q, "a", Q, "]", "}">>,
     <<"{", "/*", "c", "*/", Q, "identifiers", Q, ":", "[", Q, "a", Q, "]", "//", "c", NL, "}">>,
     <<"{", Q, "error", Q, ":", Q, "is_", "valid", Q, "}">>,
     <<"[">> \o XY \o <<"]">>,
     <<"[", "x", "]", " ", Q, "y", Q>>,
     <<"[", "0", "]">>,
     <<Q, "identifiers", Q, " ", Q, "This", " ", "one", Q>>,
     <<Q, "foo", Q, " ", Q, "bar", Q>>,
     <<"plain">>}

ReplySuffixes == {<<>>, <<NL, FENCE>>, <<" ", "}">>, <<" ", "[", Q, "z", Q, "]">>}

ComposedTexts == {p \o b \o x : p \in ReplyPrefixes, b \in ReplyBodies, x \in ReplySuffixes}

\* n copies of s, one after the other
Copies(s, n) == [i \in 1..(n * Len(s)) |-> s[((i - 1) % Len(s)) + 1]]

\* '"error" ' followed by Tier3Cap times '"w" ' and by '"last"'
ManyQuoted == <<Q, "error", Q, " ">> \o Copies(<<Q, "w", Q, " ">>, Tier3Cap) \o <<Q, "last", Q>>

ReplyTexts ==
    ShortTexts \cup ComposedTexts \cup {FencedAB, HereXY, QuotedWords, NoStructure, ManyQuoted}

ParserIdle ==
    /\ text = <<>>
    /\ ppc = "off"
    /\ consulted = {}
    /\ presult = None
    /\ ptier = 0

InitParser ==
    /\ text \in ReplyTexts
    /\ ppc = "tier1"
    /\ consulted = {}
    /\ presult = None
    /\ ptier = 0

\* the first try-block without its return: later tiers run on every reply
TryTier1Fallthrough ==
    /\ ppc = "tier1"
    /\ consulted' = consulted \cup {1}
    /\ ppc' = "tier2"
    /\ UNCHANGED <<text, presult, ptier, outsideParser>>

\* lines 100-124: the first try-block
TryTier1 ==
    /\ ppc = "tier1"
    /\ consulted' = consulted \cup {1}
    /\ IF Tier1(text) # None
       THEN /\ presult' = Tier1(text)
            /\ ptier' = 1
            /\ ppc' = "done"
       ELSE /\ ppc' = "tier2"
            /\ UNCHANGED <<presult, ptier>>
    /\ UNCHANGED <<text, outsideParser>>

\* lines 126-134: the second try-block
TryTier2 ==
    /\ ppc = "tier2"
    /\ consulted' = consulted \cup {2}
    /\ IF Tier2(text) # None
       THEN /\ presult' = Tier2(text)
            /\ ptier' = 2
            /\ ppc' = "done"
       ELSE /\ ppc' = "tier3"
            /\ UNCHANGED <<presult, ptier>>
    /\ UNCHANGED <<text, outsideParser>>

\* the third try-block without the final return: nothing found returns None
TryTier3NoDefault ==
    /\ ppc = "tier3"
    /\ consulted' = consulted \cup {3}
    /\ presult' = Tier3(text)
    /\ ptier' = IF Tier3(text) # None THEN 3 ELSE 0
    /\ ppc' = "done"
    /\ UNCHANGED <<text, outsideParser>>

\* lines 136-153: the third try-block, and the final return of the empty list
TryTier3 ==
    /\ ppc = "tier3"
    /\ consulted' = consulted \cup {3}
    /\ IF Tier3(text) # None
       THEN /\ presult' = Tier3(text)
            /\ ptier' = 3
       ELSE /\ presult' = Resp(<<>>)
            /\ ptier' = 0
    /\ ppc' = "done"
    /\ UNCHANGED <<text, outsideParser>>

(***************************************************************************)
(* json.dumps (default separators, ensure_ascii=False) and the Python      *)
(* value json.loads builds                                                 *)
(***************************************************************************)
RECURSIVE EscapeChars(_)
EscapeChars(s) ==
    IF s = <<>> THEN <<>>
    ELSE (IF Head(s) = Q THEN <<BS, Q>>
          ELSE IF Head(s) = BS THEN <<BS, BS>>
          ELSE IF Head(s) = NL THEN <<BS, "n">> ELSE <<Head(s)>>) \o EscapeChars(Tail(s))

DumpStr(s) == <<Q>> \o EscapeChars(s) \o <<Q>>

RECURSIVE JsonDumps(_)
RECURSIVE DumpItems(_)
RECURSIVE DumpPairs(_)

JsonDumps(v) ==
    CASE v.t = "str" -> DumpStr(v.s)
      [] v.t = "num" -> v.d
      [] v.t = "lit" -> <<v.v>>
      [] v.t = "list" -> <<"[">> \o DumpItems(v.l) \o <<"]">>
      [] v.t = "obj" -> <<"{">> \o DumpPairs(v.o) \o <<"}">>

DumpItems(l) ==
    IF l = <<>> THEN <<>>
    ELSE IF Len(l) = 1 THEN JsonDumps(l[1])
    ELSE JsonDumps(l[1]) \o <<",", " ">> \o DumpItems(Tail(l))

DumpPairs(o) ==
    IF o = <<>> THEN <<>>
    ELSE LET one == DumpStr(o[1][1]) \o <<":", " ">> \o JsonDumps(o[1][2]) IN
         IF Len(o) = 1 THEN one ELSE one \o <<",", " ">> \o DumpPairs(Tail(o))

\* the Python value of a decoded document: every object becomes a dict
RECURSIVE PyValue(_)
PyValue(v) ==
    CASE v.t = "list" -> JList([i \in 1..Len(v.l) |-> PyValue(v.l[i])])
      [] v.t = "obj" ->
           JObj(DictOf([i \in 1..Len(v.o) |-> <<v.o[i][1], PyValue(v.o[i][2])>>]))
      [] OTHER -> v

\* the dict {"identifiers": [...]} that _parse_response returns
RespJson(r) ==
    JObj(<< << <<"identifiers">>,
               JList([i \in 1..Len(r.identifiers) |-> JStr(r.identifiers[i])]) >> >>)

EmptyResponse == RespJson(Resp(<<>>))

(***************************************************************************)
(* ClaudeHandler: the response cache, generate_identifiers and             *)
(* generate_with_retry                                                     *)
(***************************************************************************)
Prompts == {"p1", "p2"}

MaxRetriesArg == 3

\* 'sure: "a\nb"': a reply whose only quoted span holds a newline
QuotedNewline == <<"sure", ":", " ", Q, "a", NL, "b", Q>>

\* the reply texts the endpoint may produce
EndpointReplies == {FencedAB, HereXY, NoStructure, QuotedNewline, <<" ", "[", "0", "]", NL>>}

Missing == [kind |-> "missing"]
File(content) == [kind |-> "file", content |-> content]

\* a cache file cut short by an interrupted write_text
Truncated(content) == File(Slice(content, 1, Len(content) - 1))

\* the file of `key` in a cache directory
EntryAt(cache, key) == IF key \in DOMAIN cache THEN cache[key] ELSE Missing

\* write_text on the file of `key`
Put(cache, key, entry) ==
    [k \in (DOMAIN cache) \cup {key} |-> IF k = key THEN entry ELSE cache[k]]

\* cache_path.exists() and json.loads(cache_path.read_text()) does not raise
Readable(entry) == entry.kind = "file" /\ JsonLoads(entry.content).ok

Cached(entry) == PyValue(JsonLoads(entry.content).v)

\* no generate_identifiers call is in progress
GenIdle ==
    /\ hpc = "idle" /\ hprompt = "p1" /\ huse = TRUE /\ hresult = None
    /\ hnet = 0 /\ hreply = <<>> /\ hwrite = "none" /\ hentry = Missing

\* no generate_with_retry call is in progress
RetryIdle ==
    /\ rpc = "idle" /\ rmax = 0 /\ rattempt = 0 /\ rsleeps = <<>>
    /\ rcalls = 0 /\ rlog = <<>> /\ rresult = None

\* the call's frame is dropped
GenReset ==
    /\ hpc' = "idle" /\ hprompt' = "p1" /\ huse' = TRUE /\ hresult' = None
    /\ hnet' = 0 /\ hreply' = <<>> /\ hwrite' = "none" /\ hentry' = Missing

RetryReset ==
    /\ rpc' = "idle" /\ rmax' = 0 /\ rattempt' = 0 /\ rsleeps' = <<>>
    /\ rcalls' = 0 /\ rlog' = <<>> /\ rresult' = None

HandlerIdle ==
    /\ respCache = [p \in Prompts |-> Missing]
    /\ GenIdle
    /\ RetryIdle

\* entry of generate_identifiers(prompt, use_cache)
EnterGenerate(prompt, use_cache) ==
    /\ hpc' = "check"
    /\ hprompt' = prompt
    /\ huse' = use_cache
    /\ hresult' = None
    /\ hnet' = 0
    /\ hreply' = <<>>
    /\ hwrite' = "none"
    /\ hentry' = respCache[prompt]

\* a caller other than generate_with_retry calls generate_identifiers
CallGenerate(prompt, use_cache) ==
    /\ rpc = "idle" /\ hpc = "idle"
    /\ EnterGenerate(prompt, use_cache)
    /\ UNCHANGED <<respCache, retryVars, outsideHandler>>

\* the cache check skipped: every call goes to the endpoint
GenCacheCheckSkipped ==
    /\ hpc = "check"
    /\ hpc' = "api"
    /\ UNCHANGED <<respCache, hprompt, huse, hresult, hnet, hreply, hwrite, hentry, retryVars,
                   outsideHandler>>

\* lines 45-54: the cache check
GenCacheCheck ==
    /\ hpc = "check"
    /\ IF huse /\ Readable(respCache[hprompt])
       THEN /\ hresult' = Cached(respCache[hprompt])
            /\ hpc' = "returned"
       ELSE /\ hpc' = "api"
            /\ UNCHANGED hresult
    /\ UNCHANGED <<respCache, hprompt, huse, hnet, hreply, hwrite, hentry, retryVars, outsideHandler>>

\* the cache write with an empty identifier list left out
CacheWriteNonEmpty(cache, prompt, parsed, how) ==
    CASE parsed = EmptyResponse -> cache
      [] how = "written" -> Put(cache, prompt, File(JsonDumps(parsed)))
      [] how = "failed" -> cache
      [] how = "partial" -> Put(cache, prompt, Truncated(JsonDumps(parsed)))

\* lines 75-82: the best-effort cache write; it lands, fails before the file is
\* opened, or is cut short
CacheWrite(cache, prompt, parsed, how) ==
    CASE how = "written" -> Put(cache, prompt, File(JsonDumps(parsed)))
      [] how = "failed" -> cache
      [] how = "partial" -> Put(cache, prompt, Truncated(JsonDumps(parsed)))

\* the API call with the empty response cached when the call fails
GenApiCallCachingErrors ==
    /\ hpc = "api"
    /\ hnet' = hnet + 1
    /\ \/ /\ hpc' = "raised"
          /\ respCache' = IF huse THEN CacheWrite(respCache, hprompt, EmptyResponse, "written")
                          ELSE respCache
          /\ UNCHANGED <<hresult, hreply, hwrite>>
       \/ \E reply \in EndpointReplies, how \in {"written", "failed", "partial"} :
            LET parsed == RespJson(ParseResponse(Strip(reply))) IN
            /\ respCache' = IF huse THEN CacheWrite(respCache, hprompt, parsed, how)
                            ELSE respCache
            /\ hresult' = parsed
            /\ hreply' = reply
            /\ hwrite' = IF huse THEN how ELSE "none"
            /\ hpc' = "returned"
    /\ UNCHANGED <<hprompt, huse, hentry, retryVars, outsideHandler>>

\* lines 56-89: the API call, the parse of the reply, the cache write, and the
\* wrapping of any error
GenApiCall ==
    /\ hpc = "api"
    /\ hnet' = hnet + 1
    /\ \/ /\ hpc' = "raised"
          /\ UNCHANGED <<respCache, hresult, hreply, hwrite>>
       \/ \E reply \in EndpointReplies, how \in {"written", "failed", "partial"} :
            LET parsed == RespJson(ParseResponse(Strip(reply))) IN
            /\ respCache' = IF huse THEN CacheWrite(respCache, hprompt, parsed, how)
                            ELSE respCache
            /\ hresult' = parsed
            /\ hreply' = reply
            /\ hwrite' = IF huse THEN how ELSE "none"
            /\ hpc' = "returned"
    /\ UNCHANGED <<hprompt, huse, hentry, retryVars, outsideHandler>>

\* the direct caller takes the result or the exception
GenFinish ==
    /\ rpc = "idle" /\ hpc \in {"returned", "raised"}
    /\ GenReset
    /\ UNCHANGED <<respCache, retryVars, outsideHandler>>

\* entry of generate_with_retry(prompt, max_retries)
CallRetry(prompt, max_retries) ==
    /\ rpc = "idle" /\ hpc = "idle"
    /\ rpc' = "loop"
    /\ rmax' = max_retries
    /\ rattempt' = 0
    /\ rsleeps' = <<>>
    /\ rcalls' = 0
    /\ rlog' = <<>>
    /\ rresult' = None
    /\ hprompt' = prompt
    /\ UNCHANGED <<respCache, hpc, huse, hresult, hnet, hreply, hwrite, hentry, outsideHandler>>

\* lines 166-168: the loop head; when range(max_retries) is used up without a
\* return the function falls off its end and returns None
RetryLoop ==
    /\ rpc = "loop"
    /\ IF rattempt < rmax
       THEN /\ EnterGenerate(hprompt, TRUE)
            /\ rcalls' = rcalls + 1
            /\ rpc' = "try"
            /\ UNCHANGED rresult
       ELSE /\ rresult' = None
            /\ rpc' = "done"
            /\ UNCHANGED <<genVars, rcalls>>
    /\ UNCHANGED <<respCache, rmax, rattempt, rsleeps, rlog, outsideHandler>>

\* line 168: the call returned
RetryReturn ==
    /\ rpc = "try" /\ hpc = "returned"
    /\ rresult' = hresult
    /\ rlog' = Append(rlog, "ok")
    /\ rpc' = "done"
    /\ hpc' = "idle"
    /\ UNCHANGED <<respCache, hprompt, huse, hresult, hnet, hreply, hwrite, hentry,
                   rmax, rattempt, rsleeps, rcalls, outsideHandler>>

\* a linear backoff in place of the exponential one
WaitTimeLinear(attempt) == 2 * attempt

\* line 171
WaitTime(attempt) == 2 ^ attempt

\* a loop that sleeps after every failed call, the last one included
RetryExceptSleepsLast ==
    /\ rpc = "try" /\ hpc = "raised"
    /\ rlog' = Append(rlog, "fail")
    /\ GenReset
    /\ rsleeps' = Append(rsleeps, WaitTime(rattempt))
    /\ IF rattempt < rmax - 1
       THEN /\ rattempt' = rattempt + 1
            /\ rpc' = "loop"
            /\ UNCHANGED rresult
       ELSE /\ rresult' = EmptyResponse
            /\ rpc' = "done"
            /\ UNCHANGED rattempt
    /\ UNCHANGED <<respCache, rmax, rcalls, outsideHandler>>

\* lines 169-176: the call raised
RetryExcept ==
    /\ rpc = "try" /\ hpc = "raised"
    /\ rlog' = Append(rlog, "fail")
    /\ GenReset
    /\ IF rattempt < rmax - 1
       THEN /\ rsleeps' = Append(rsleeps, WaitTime(rattempt))
            /\ rattempt' = rattempt + 1
            /\ rpc' = "loop"
            /\ UNCHANGED rresult
       ELSE /\ rresult' = EmptyResponse
            /\ rpc' = "done"
            /\ UNCHANGED <<rsleeps, rattempt>>
    /\ UNCHANGED <<respCache, rmax, rcalls, outsideHandler>>

\* the caller of generate_with_retry takes the result
RetryFinish ==
    /\ rpc = "done"
    /\ RetryReset
    /\ GenReset
    /\ UNCHANGED <<respCache, outsideHandler>>

(***************************************************************************)
(* ASTAnalyzer.extract_ast                                                 *)
(***************************************************************************)
\* json.dumps(v, ensure_ascii=False, indent=2)
RECURSIVE Spaces(_)
Spaces(n) == IF n = 0 THEN <<>> ELSE <<" ">> \o Spaces(n - 1)

RECURSIVE DumpIndent(_, _)
RECURSIVE DumpIndentItems(_, _)
RECURSIVE DumpIndentPairs(_, _)

DumpIndent(v, level) ==
    CASE v.t = "list" ->
           IF v.l = <<>> THEN <<"[", "]">>
           ELSE <<"[", NL>> \o DumpIndentItems(v.l, level + 1)
                    \o <<NL>> \o Spaces(2 * level) \o <<"]">>
      [] v.t = "obj" ->
           IF v.o = <<>> THEN <<"{", "}">>
           ELSE <<"{", NL>> \o DumpIndentPairs(v.o, level + 1)
                    \o <<NL>> \o Spaces(2 * level) \o <<"}">>
      [] OTHER -> JsonDumps(v)

DumpIndentItems(l, level) ==
    LET one == Spaces(2 * level) \o DumpIndent(l[1], level) IN
    IF Len(l) = 1 THEN one ELSE one \o <<",", NL>> \o DumpIndentItems(Tail(l), level)

DumpIndentPairs(o, level) ==
    LET one == Spaces(2 * level) \o DumpStr(o[1][1]) \o <<":", " ">>
                   \o DumpIndent(o[1][2], level)
    IN IF Len(o) = 1 THEN one ELSE one \o <<",", NL>> \o DumpIndentPairs(Tail(o), level)

\* the methods before the types
CategoriesMethodsFirst ==
    <<"methods", "classes", "structs", "enums", "protocols", "properties", "variables",
      "enumCases", "initializers", "deinitializers", "subscripts", "extensions">>

Categories ==
    <<"classes", "structs", "enums", "protocols", "methods", "properties", "variables",
      "enumCases", "initializers", "deinitializers", "subscripts", "extensions">>

\* lines 97-101: the lists under the category keys, in the order of Categories
RECURSIVE FlattenDecisions(_, _)
FlattenDecisions(decisions, k) ==
    IF k > Len(Categories) THEN <<>>
    ELSE (IF HasKey(decisions, <<Categories[k]>>)
             /\ Lookup(decisions, <<Categories[k]>>).t = "list"
          THEN Lookup(decisions, <<Categories[k]>>).l
          ELSE <<>>) \o FlattenDecisions(decisions, k + 1)

NoSwiftFiles == "No Swift files found"

\* an empty symbol list is returned as it is
NormalizeKeepsEmpty(ast_data) ==
    IF ast_data.t = "obj" /\ HasKey(ast_data.o, <<"decisions">>)
    THEN LET decisions == Lookup(ast_data.o, <<"decisions">>) IN
         IF decisions.t # "obj" THEN None
         ELSE JList(FlattenDecisions(decisions.o, 1))
    ELSE IF ast_data.t # "list" THEN JList(<<ast_data>>)
    ELSE ast_data

\* lines 91-111: the decisions object flattened, any other value wrapped in a
\* list.  A decisions value that is no dict gives None: either no category is
\* "in" it, or indexing it raises into the generic except.
Normalize(ast_data) ==
    IF ast_data.t = "obj" /\ HasKey(ast_data.o, <<"decisions">>)
    THEN LET decisions == Lookup(ast_data.o, <<"decisions">>) IN
         IF decisions.t # "obj" THEN None
         ELSE LET symbol_list == FlattenDecisions(decisions.o, 1) IN
              IF symbol_list = <<>> THEN None ELSE JList(symbol_list)
    ELSE IF ast_data.t # "list" THEN JList(<<ast_data>>)
    ELSE ast_data

\* the "No Swift files found" line is not looked for
FromStdoutNoMarker(stdout) ==
    LET output == Strip(stdout)
        start_idx == Find(output, "{")
    IN IF start_idx = 0 THEN None
       ELSE LET loaded == JsonLoads(Slice(output, start_idx, Len(output))) IN
            IF ~loaded.ok THEN None ELSE Normalize(PyValue(loaded.v))

\* lines 75-111 on the stdout of an analyzer run that exited 0: the normalized
\* list, or None
FromStdout(stdout) ==
    LET output == Strip(stdout)
        start_idx == Find(output, "{")
    IN IF Contains(output, NoSwiftFiles) THEN None
       ELSE IF start_idx = 0 THEN None
       ELSE LET loaded == JsonLoads(Slice(output, start_idx, Len(output))) IN
            IF ~loaded.ok THEN None ELSE Normalize(PyValue(loaded.v))

\* lines 62-73 and 124-134: the outcome of subprocess.run
FromRun(run) ==
    IF run.how = "exit0" THEN FromStdout(run.stdout) ELSE None

\* the texts of the source files
Sources == {<<"class", " ", "A">>, <<NL, "func", " ", "b", NL>>}

MaxExtractCalls == 2

Sym(name) == JObj(<< << <<"name">>, JStr(<<name>>) >> >>)

Decisions(pairs) == JObj(<< << <<"decisions">>, JObj(pairs) >> >>)

ClassesA == << <<"classes">>, JList(<<Sym("A")>>) >>
MethodsB == << <<"methods">>, JList(<<Sym("b")>>) >>

\* what the analyzer may print
AnalyzerStdouts ==
    {JsonDumps(Decisions(<<ClassesA, MethodsB>>)),
     <<"Parsing", " ", "file", NL>> \o JsonDumps(Decisions(<<MethodsB, ClassesA>>)) \o <<NL>>,
     JsonDumps(Decisions(<< << <<"classes">>, JList(<<>>) >>, << <<"other">>, JList(<<Sym("A")>>) >> >>)),
     JsonDumps(JObj(<< << <<"decisions">>, JStr(<<"none">>) >> >>)),
     JsonDumps(Sym("A")),
     JsonDumps(JList(<<Sym("A")>>)),
     <<"Parsing", " ", "file", NL>> \o JsonDumps(JList(<<Sym("A"), Sym("b")>>)),
     JsonDumps(Decisions(<< << <<"methods">>, JStr(<<"b">>) >>, << <<"extensions">>, JList(<<Sym("b")>>) >>,
                            << <<"other">>, JList(<<Sym("b")>>) >>, ClassesA >>)),
     <<NoSwiftFiles, ".">>,
     <<NoSwiftFiles, ".", NL>> \o JsonDumps(Decisions(<<ClassesA>>)),
     <<"done">>,
     <<"{", Q, "name", Q, ":">>}

AnalyzerRuns ==
    {[how |-> "timeout"], [how |-> "nonzero"]}
        \cup {[how |-> "exit0", stdout |-> o] : o \in AnalyzerStdouts}

WriteOutcomes == {"written", "failed", "partial"}

\* the cache lookup never hits
AstCacheHitNever(entry, use_cache) == FALSE

\* lines 46-53: the cache file exists and decodes
AstCacheHit(entry, use_cache) ==
    use_cache /\ Readable(entry)

\* lines 113-120: the best-effort cache write
AstCacheWrite(cache, source, ast_data, how) ==
    CASE how = "written" -> Put(cache, source, File(DumpIndent(ast_data, 0)))
      [] how = "failed" -> cache
      [] how = "partial" -> Put(cache, source, Truncated(DumpIndent(ast_data, 0)))

\* lines 113-122: the subprocess step gave `ast_data`; the cache write happens
\* only for a value, and the value is returned
AfterRun(cache, source, use_cache, ast_data, how) ==
    [result |-> ast_data, invoked |-> TRUE,
     cache |-> IF ast_data # None /\ use_cache
               THEN AstCacheWrite(cache, source, ast_data, how)
               ELSE cache]

\* extract_ast on a file holding `source`, with the subprocess outcome `run` and
\* the cache-write outcome `how`: the value returned, whether the subprocess was
\* started, and the cache afterwards
ExtractAst(cache, source, use_cache, exists, run, how) ==
    IF AstCacheHit(EntryAt(cache, source), use_cache)
    THEN [result |-> Cached(EntryAt(cache, source)), invoked |-> FALSE, cache |-> cache]
    ELSE IF ~exists
    THEN [result |-> None, invoked |-> FALSE, cache |-> cache]
    ELSE AfterRun(cache, source, use_cache, FromRun(run), how)

\* the subprocess is started: the cache does not answer and the executable is
\* there (lines 46-59)
Starts(cache, source, use_cache, exists) ==
    ~AstCacheHit(EntryAt(cache, source), use_cache) /\ exists

\* the cache-write outcomes a call can meet: the write is tried only for a value
\* and only when the cache is in use
WritesMet(ast_data, use_cache) ==
    IF ast_data # None /\ use_cache THEN WriteOutcomes ELSE {"failed"}

ExtractorIdle ==
    /\ astCache = [src \in Sources |-> Missing]
    /\ analyzerExists = TRUE
    /\ astUseCache = TRUE
    /\ elog = <<>>
    /\ erun = None

TempIdle == tpc = "idle" /\ ttemp = {} /\ tpath = None /\ tresult = None

InitExtractor ==
    /\ astCache = [src \in Sources |-> Missing]
    /\ analyzerExists \in BOOLEAN
    /\ astUseCache \in BOOLEAN
    /\ elog = <<>>
    /\ erun = None

\* the log record of a call of extract_ast that found the cache as `cache`
LogEntry(source, r, cache) ==
    [source |-> source, result |-> r.result, invoked |-> r.invoked,
     stored |-> astUseCache /\ r.result # None
                /\ r.cache[source].kind = "file"
                /\ r.cache[source].content = DumpIndent(r.result, 0),
     hit |-> AstCacheHit(EntryAt(cache, source), astUseCache),
     kept |-> r.cache = cache]

\* one call of extract_ast on a file holding `source`
Extract(source) ==
    /\ tpc \in {"idle", "done", "propagated"}
    /\ Len(elog) < MaxExtractCalls
    /\ IF Starts(astCache, source, astUseCache, analyzerExists)
       THEN \E run \in AnalyzerRuns :
              \E ast_data \in {FromRun(run)} :
              \E how \in WritesMet(ast_data, astUseCache) :
              \E r \in {AfterRun(astCache, source, astUseCache, ast_data, how)} :
              /\ astCache' = r.cache
              /\ elog' = Append(elog, LogEntry(source, r, astCache))
              /\ erun' = run
       ELSE \E r \in {ExtractAst(astCache, source, astUseCache, analyzerExists,
                                 [how |-> "timeout"], "failed")} :
              /\ astCache' = r.cache
              /\ elog' = Append(elog, LogEntry(source, r, astCache))
              /\ erun' = None
    /\ UNCHANGED <<analyzerExists, astUseCache, outsideExtractor>>

(***************************************************************************)
(* ASTAnalyzer.extract_ast_from_code                                       *)
(***************************************************************************)
\* what the analyzer does when it is run on a temporary file
TempRuns ==
    {[how |-> "timeout"],
     [how |-> "exit0", stdout |-> JsonDumps(Decisions(<<ClassesA, MethodsB>>))],
     [how |-> "exit0", stdout |-> <<"done">>]}

\* a temporary file: its name is new in every call
TempFile(code) == [kind |-> "temp", id |-> Len(elog) + 1, text |-> code]

\* lines 146-151: the text is written to a new temporary file
TempCreate(code) ==
    /\ tpc \in {"idle", "done", "propagated"}
    /\ Len(elog) < MaxExtractCalls
    /\ tpc' = "created"
    /\ tpath' = TempFile(code)
    /\ ttemp' = ttemp \cup {TempFile(code)}
    /\ tresult' = None
    /\ UNCHANGED <<astCache, elog, erun, outsideTemp>>

\* line 154: extract_ast(temp_path) returns its value, or is left by an
\* exception that its `except Exception` clauses do not catch
\* (KeyboardInterrupt while the subprocess runs)
TempDelegate ==
    /\ tpc = "created"
    /\ \/ \E run \in TempRuns, how \in {"written", "failed"} :
            \E r \in {ExtractAst(astCache, tpath.text, astUseCache, analyzerExists, run, how)} :
            /\ astCache' = r.cache
            /\ elog' = Append(elog, LogEntry(tpath.text, r, astCache))
            /\ erun' = IF r.invoked THEN run ELSE None
            /\ tresult' = r.result
            /\ tpc' = "returned"
       \/ /\ analyzerExists
          /\ tpc' = "raised"
          /\ UNCHANGED <<astCache, elog, erun, tresult>>
    /\ UNCHANGED <<ttemp, tpath, outsideTemp>>

\* the temporary file is removed only when extract_ast returned
TempFinallyOnReturn ==
    /\ tpc \in {"returned", "raised"}
    /\ ttemp' = IF tpc = "returned" THEN ttemp \ {tpath} ELSE ttemp
    /\ tpc' = IF tpc = "returned" THEN "done" ELSE "propagated"
    /\ UNCHANGED <<tpath, tresult, astCache, elog, erun, outsideTemp>>

\* lines 155-159: the finally clause removes the temporary file, then the value
\* is returned or the exception goes on to the caller
TempFinally ==
    /\ tpc \in {"returned", "raised"}
    /\ ttemp' = ttemp \ {tpath}
    /\ tpc' = IF tpc = "returned" THEN "done" ELSE "propagated"
    /\ UNCHANGED <<tpath, tresult, astCache, elog, erun, outsideTemp>>

(***************************************************************************)
(* Rule filter (analyzers/rule_filter.py)                                  *)
(*                                                                         *)
(* Identifiers, descriptions and clauses are spelled with atoms none of    *)
(* which contains a keyword of the heuristics inside it ("UIKit" is        *)
(* <<"UI", "Kit">>), so that `x in y` on str is IsSubstr on atoms.         *)
(***************************************************************************)
\* str.lower() on one atom
LowerAtom(a) ==
    CASE a = "UI" -> "ui"
      [] a = "Kit" -> "kit"
      [] a = "View" -> "view"
      [] a = "App" -> "app"
      [] a = "Scene" -> "scene"
      [] a = "Delegate" -> "delegate"
      [] a = "De" -> "de"
      [] a = "Codable" -> "codable"
      [] a = "Button" -> "button"
      [] a = "Model" -> "model"
      [] a = "A" -> "a"
      [] OTHER -> a

Lower(s) == [i \in 1..Len(s) |-> LowerAtom(s[i])]

\* `needle in hay` on str
IsSubstr(needle, hay) ==
    \E i \in 1..(Len(hay) - Len(needle) + 1) :
        Slice(hay, i, i + Len(needle) - 1) = needle

\* only the fields of the top-level symbols are read
ExtractTopLevel(obj) ==
    CASE obj.t = "list" ->
           UNION {IF obj.l[i].t # "obj" THEN {}
                  ELSE (IF HasKey(obj.l[i].o, <<"symbol_name">>)
                        THEN {Lookup(obj.l[i].o, <<"symbol_name">>)} ELSE {})
                       \cup (IF HasKey(obj.l[i].o, <<"name">>)
                                 /\ Lookup(obj.l[i].o, <<"name">>).t = "str"
                             THEN {Lookup(obj.l[i].o, <<"name">>)} ELSE {})
                  : i \in 1..Len(obj.l)}
      [] OTHER -> {}

\* lines 54-71: the identifiers found in obj and below it
RECURSIVE ExtractRecursive(_)
ExtractRecursive(obj) ==
    CASE obj.t = "obj" ->
           (IF HasKey(obj.o, <<"symbol_name">>)
            THEN {Lookup(obj.o, <<"symbol_name">>)} ELSE {})
           \cup (IF HasKey(obj.o, <<"name">>) /\ Lookup(obj.o, <<"name">>).t = "str"
                 THEN {Lookup(obj.o, <<"name">>)} ELSE {})
           \cup UNION {ExtractRecursive(obj.o[i][2]) : i \in 1..Len(obj.o)}
      [] obj.t = "list" -> UNION {ExtractRecursive(obj.l[i]) : i \in 1..Len(obj.l)}
      [] OTHER -> {}

\* extract_identifiers_from_ast
ExtractIdentifiersFromAst(ast_data) ==
    IF ast_data = None THEN {}
    ELSE IF ~PyTruthy(ast_data) THEN {}
    ELSE ExtractRecursive(ast_data)

\* dict.get(key, default)
Get(d, key, default) == IF HasKey(d.o, key) THEN Lookup(d.o, key) ELSE default

\* lines 134-138: some top-level symbol carries an attribute whose text holds @objc
HasObjcAttribute(ast_data) ==
    \E i \in 1..Len(ast_data.l) :
        LET symbol == ast_data.l[i] IN
        /\ symbol.t = "obj"
        /\ LET attrs == Get(symbol, <<"attributes">>, JList(<<>>)) IN
           \E j \in 1..Len(attrs.l) : IsSubstr(<<"@", "objc">>, PyStr(attrs.l[j]))

\* lines 147-157: some where-clause of the rule's pattern holds a file identifier
PatternMatches(rule, file_identifiers) ==
    LET pattern == Get(rule, <<"pattern">>, JList(<<>>)) IN
    /\ pattern.t = "list"
    /\ \E i \in 1..Len(pattern.l) :
         LET p == pattern.l[i] IN
         /\ p.t = "obj"
         /\ LET where_clauses == Get(p, <<"where">>, JList(<<>>)) IN
            \E j \in 1..Len(where_clauses.l) :
                LET clause == where_clauses.l[j] IN
                /\ clause.t = "str"
                /\ \E identifier \in file_identifiers : IsSubstr(identifier.s, clause.s)

\* the chain ends at the first step whose description keyword is found
IsRuleRelevantFirstMatch(rule, file_identifiers, ast_data) ==
    LET description == Lower(Get(rule, <<"description">>, JStr(<<>>)).s) IN
    IF IsSubstr(<<"ui", "kit">>, description) \/ IsSubstr(<<"ui", "view">>, description)
    THEN \E id \in file_identifiers : IsSubstr(<<"ui">>, Lower(id.s))
    ELSE IF IsSubstr(<<"app", "delegate">>, description)
            \/ IsSubstr(<<"scene", "delegate">>, description)
    THEN \E id \in file_identifiers : IsSubstr(<<"delegate">>, Lower(id.s))
    ELSE IF IsSubstr(<<"@", "objc">>, description)
            \/ IsSubstr(<<"objective", "-", "c">>, description)
    THEN HasObjcAttribute(ast_data)
    ELSE IF IsSubstr(<<"codable">>, description)
    THEN \E id \in file_identifiers :
            \/ IsSubstr(<<"codable">>, Lower(id.s))
            \/ IsSubstr(<<"de", "codable">>, Lower(id.s))
    ELSE PatternMatches(rule, file_identifiers)

\* _is_rule_relevant
IsRuleRelevant(rule, file_identifiers, ast_data) ==
    LET description == Lower(Get(rule, <<"description">>, JStr(<<>>)).s) IN
    \/ /\ IsSubstr(<<"ui", "kit">>, description) \/ IsSubstr(<<"ui", "view">>, description)
       /\ \E id \in file_identifiers : IsSubstr(<<"ui">>, Lower(id.s))
    \/ /\ \/ IsSubstr(<<"app", "delegate">>, description)
          \/ IsSubstr(<<"scene", "delegate">>, description)
       /\ \E id \in file_identifiers : IsSubstr(<<"delegate">>, Lower(id.s))
    \/ /\ \/ IsSubstr(<<"@", "objc">>, description)
          \/ IsSubstr(<<"objective", "-", "c">>, description)
       /\ HasObjcAttribute(ast_data)
    \/ /\ IsSubstr(<<"codable">>, description)
       /\ \E id \in file_identifiers :
            \/ IsSubstr(<<"codable">>, Lower(id.s))
            \/ IsSubstr(<<"de", "codable">>, Lower(id.s))
    \/ PatternMatches(rule, file_identifiers)

\* lines 97-108: the loop over self.all_rules from rule i on
RECURSIVE FilterLoop(_, _, _, _, _, _)
FilterLoop(all_rules, i, filtered_rules, file_identifiers, ast_data, max_rules) ==
    IF i > Len(all_rules) THEN filtered_rules
    ELSE LET rule == all_rules[i] IN
         IF rule.t # "obj"
         THEN FilterLoop(all_rules, i + 1, filtered_rules, file_identifiers, ast_data,
                         max_rules)
         ELSE IF IsRuleRelevant(rule, file_identifiers, ast_data)
         THEN LET appended == Append(filtered_rules, rule) IN
              IF Len(appended) >= max_rules THEN appended
              ELSE FilterLoop(all_rules, i + 1, appended, file_identifiers, ast_data,
                              max_rules)
         ELSE FilterLoop(all_rules, i + 1, filtered_rules, file_identifiers, ast_data,
                         max_rules)

\* the early return of lines 91-92 tests ast_data instead of file_identifiers
FilterRulesTestsAst(all_rules, ast_data, max_rules) ==
    IF ast_data = None THEN <<>>
    ELSE IF ~PyTruthy(ast_data) THEN <<>>
    ELSE FilterLoop(all_rules, 1, <<>>, ExtractIdentifiersFromAst(ast_data), ast_data,
                    max_rules)

\* filter_rules_for_file
FilterRulesForFile(all_rules, ast_data, max_rules) ==
    LET file_identifiers == ExtractIdentifiersFromAst(ast_data) IN
    IF file_identifiers = {} THEN <<>>
    ELSE FilterLoop(all_rules, 1, <<>>, file_identifiers, ast_data, max_rules)

\* the backtick of the Rule ID line
TICK == "<tick>"

NoRulesMatched == <<"No specific rules matched for this file.">>

RuleIdLabel == ". **Rule ID**: "

FormatHeader ==
    <<"**Relevant Exclusion Rule Examples:**", NL, NL,
      "*Note: These rules are EXAMPLES. Use your expertise to find ALL identifiers that should be excluded, even if they don't match these exact patterns.*",
      NL, NL>>

RenderLimit == 10

\* str(i) for the entry numbers
Decimal(i) == <<"1", "2", "3", "4", "5", "6", "7", "8", "9", "10">>[i]

\* lines 178-189: the entry of one rule
FormatEntry(i, rule) ==
    LET rule_id == Get(rule, <<"id">>, JStr(<<"UNKNOWN">>))
        description == Get(rule, <<"description">>, JStr(<<"No description">>))
        pattern == Get(rule, <<"pattern">>, JList(<<>>))
    IN <<Decimal(i), RuleIdLabel, TICK>> \o PyStr(rule_id) \o <<TICK, NL>>
       \o <<"   **Description**: ">> \o PyStr(description) \o <<NL>>
       \o (IF PyTruthy(pattern)
           THEN <<"   **Pattern**: Checks for specific symbol attributes", NL>>
           ELSE <<>>)
       \o <<NL>>

RECURSIVE FormatEntries(_, _)
FormatEntries(rules, i) ==
    IF i > Len(rules) THEN <<>>
    ELSE FormatEntry(i, rules[i]) \o FormatEntries(rules, i + 1)

\* seq[:n]
Take(seq, n) == IF Len(seq) <= n THEN seq ELSE SubSeq(seq, 1, n)

\* format_rules_for_prompt
FormatRulesForPrompt(filtered_rules) ==
    IF filtered_rules = <<>> THEN NoRulesMatched
    ELSE Strip(FormatHeader
               \o FormatEntries(Take(filtered_rules, RenderLimit), 1))

\* the numbered entries of a rules text
RenderedEntries(rules_text) ==
    Cardinality({i \in 1..Len(rules_text) : rules_text[i] = RuleIdLabel})

DefaultMaxRules == 20

MaxCorpusLen == 12

Named(name) == JObj(<< << <<"name">>, JStr(name) >> >>)

ObjcAttributes == << <<"attributes">>, JList(<<JStr(<<"@", "objc">>)>>) >>

\* the ast_data arguments
FilterAsts ==
    {None,
     JList(<<>>),
     JList(<<Named(<<"A">>), Named(<<"b">>)>>),
     JList(<<JObj(<< << <<"name">>, JStr(<<"UI", "Button">>) >>, ObjcAttributes >>)>>),
     JList(<<JObj(<<ObjcAttributes>>)>>),
     JList(<<JObj(<< << <<"symbolName">>, JStr(<<"UI", "View">>) >>, ObjcAttributes >>)>>),
     JList(<<JObj(<< << <<"name">>, JNum(<<"7">>) >>, ObjcAttributes >>)>>),
     JList(<<JObj(<< << <<"members">>,
                        JList(<<JObj(<< << <<"symbol_name">>,
                                           JStr(<<"App", "Delegate">>) >> >>)>>) >> >>)>>),
     JList(<<Named(<<>>)>>),
     JList(<<Named(<<"De", "codable", "Model">>)>>)}

Rule(id, description, clauses) ==
    JObj(<< << <<"id">>, JStr(id) >>,
            << <<"description">>, JStr(description) >>,
            << <<"pattern">>,
               IF clauses = <<>> THEN JList(<<>>)
               ELSE JList(<<JObj(<< << <<"where">>, JList(clauses) >> >>)>>) >> >>)

UiRule(i) == Rule(<<"UI", Decimal(((i - 1) % 10) + 1)>>, <<"UI", "Kit", " ", "views">>, <<>>)

ObjcRule == Rule(<<"OBJC">>, <<"exposed", " ", "to", " ", "objective", "-", "c">>, <<>>)

MixedCorpus ==
    <<UiRule(1),
      Rule(<<"DELEGATE">>, <<"App", "Delegate", " ", "methods">>, <<>>),
      ObjcRule,
      JStr(<<"not", " ", "a", " ", "rule">>),
      Rule(<<"CODABLE">>, <<"Codable", " ", "keys">>, <<>>),
      Rule(<<"PATTERN">>, <<"named", " ", "symbols">>,
           <<JStr(<<"S", ".", "name", " ", "==", " ", "A">>), JNum(<<"7">>)>>),
      JObj(<<>>)>>

\* rules whose description names a keyword and whose pattern or second
\* keyword matches other files
ChainCorpus ==
    <<Rule(<<"UIPAT">>, <<"UI", "Kit", " ", "symbols">>,
           <<JStr(<<"S", ".", "name", " ", "==", " ", "A">>)>>),
      Rule(<<"UICOD">>, <<"UI", "View", " ", "Codable", " ", "models">>, <<>>),
      Rule(<<"DELPAT">>, <<"Scene", "Delegate", " ", "hooks">>,
           <<JStr(<<"S", ".", "name", " ", "==", " ", "b">>)>>)>>

\* the rule corpora
Corpora ==
    {<<>>, <<ObjcRule>>, MixedCorpus, ChainCorpus, [i \in 1..MaxCorpusLen |-> UiRule(i)]}

CapValues == {0, 1, 2, DefaultMaxRules}

\* a document with a top-level rules entry
RulesDocument(rules) == JObj(<< << <<"rules">>, rules >> >>)

\* what yaml.safe_load returns on the rule file: None for an empty document, a
\* mapping with or without a rules list, a top-level sequence
RuleDocuments ==
    {None,
     JObj(<< << <<"version">>, JNum(<<"1">>) >> >>),
     JList(<<ObjcRule>>)}
        \cup {RulesDocument(JList(corpus)) : corpus \in Corpora}

\* the rule file: absent, not YAML, not readable, or holding a document
RuleFiles ==
    {[kind |-> "missing"], [kind |-> "yaml_error"], [kind |-> "os_error"]}
        \cup {[kind |-> "document", value |-> v] : v \in RuleDocuments}

\* lines 23-37: _load_rules
LoadRules(path) ==
    IF path.kind = "document" THEN path.value ELSE RulesDocument(JList(<<>>))

\* lines 20-21: __init__; `.get` on a value that is no dict raises
RuleFilterInit(path) ==
    LET rules_data == LoadRules(path) IN
    IF rules_data = None \/ rules_data.t # "obj"
    THEN [raised |-> TRUE, all_rules |-> <<>>]
    ELSE [raised |-> FALSE, all_rules |-> Get(rules_data, <<"rules">>, JList(<<>>)).l]

FilterIdle ==
    /\ fyaml = None /\ frules = <<>> /\ fast = None /\ fmax = DefaultMaxRules
    /\ fpc = "off" /\ fids = {} /\ ffiltered = <<>> /\ ftext = <<>>

InitFilter ==
    /\ fyaml \in RuleFiles
    /\ frules = <<>>
    /\ fast \in FilterAsts
    /\ fmax \in CapValues
    /\ fpc = "new" /\ fids = {} /\ ffiltered = <<>> /\ ftext = <<>>

\* RuleFilter(rules_yaml_path)
Construct ==
    /\ fpc = "new"
    /\ \E r \in {RuleFilterInit(fyaml)} :
         IF r.raised
         THEN fpc' = "raised" /\ UNCHANGED frules
         ELSE fpc' = "start" /\ frules' = r.all_rules
    /\ UNCHANGED <<fyaml, fast, fmax, fids, ffiltered, ftext, outsideFilter>>

\* a call of filter_rules_for_file
FilterForFile ==
    /\ fpc = "start"
    /\ fids' = ExtractIdentifiersFromAst(fast)
    /\ ffiltered' = FilterRulesForFile(frules, fast, fmax)
    /\ fpc' = "filtered"
    /\ UNCHANGED <<fyaml, frules, fast, fmax, ftext, outsideFilter>>

\* a call of format_rules_for_prompt on the filtered list
FormatForPrompt ==
    /\ fpc = "filtered"
    /\ ftext' = FormatRulesForPrompt(ffiltered)
    /\ fpc' = "formatted"
    /\ UNCHANGED <<fyaml, frules, fast, fmax, fids, ffiltered, outsideFilter>>

(***************************************************************************)
(* Prompt builder (generators/prompt_builder.py) and the per-file pipeline *)
(* (generators/dataset_generator.py).  The fixed paragraphs of the         *)
(* templates are one atom each.                                            *)
(***************************************************************************)
SwiftFence == <<FENCE, "swift", NL>>

JsonFence == <<FENCE, "json", NL>>

CloseFence == <<NL, FENCE, NL>>

SourceHeader == "### Swift Source Code:"

AstHeader == "### AST Symbol Information:"

\* build_prompt
BuildPrompt(swift_code, ast_data, rules_text) ==
    <<"You are an expert Swift code auditor specializing in code obfuscation safety analysis.",
      NL, NL, "## CRITICAL INSTRUCTIONS ... ## OUTPUT FORMAT EXAMPLES ... ## INPUT DATA", NL, NL,
      SourceHeader, NL>>
    \o SwiftFence \o swift_code \o CloseFence
    \o <<NL, AstHeader, NL>> \o JsonFence \o DumpIndent(ast_data, 0) \o CloseFence
    \o <<NL, "### Example Exclusion Rules (REFERENCE ONLY):", NL>> \o rules_text
    \o <<NL, NL, "---", NL, NL, "## YOUR TASK ... Output format:", NL,
         "{", Q, "identifiers", Q, ":", " ", "[", Q, "identifier1", Q, ",", " ",
         Q, "identifier2", Q, ",", " ", "...", "]", "}", NL>>

\* build_simple_prompt
BuildSimplePrompt(swift_code) ==
    <<"You are an expert Swift code auditor. Analyze this Swift code and identify ALL identifiers that must be excluded from obfuscation.",
      NL, NL, "Consider: ...", NL, NL, "**Swift Code:**", NL>>
    \o SwiftFence \o swift_code \o CloseFence
    \o <<NL, "Return ONLY a JSON object: ", "{", Q, "identifiers", Q, ":", " ",
         "[", Q, "id1", Q, ",", " ", Q, "id2", Q, ",", " ", "...", "]", "}", NL>>

\* dataset_generator.py line 74: the instruction text
Instruction ==
    <<"You are an expert Swift code auditor specializing in obfuscation safety analysis.",
      NL, NL, "Analyze the provided Swift source code, AST (Abstract Syntax Tree), and exclusion rule examples ...">>

\* generate_real_world_inference.py line 23: INSTRUCTION
INSTRUCTION ==
    <<"You are an expert Swift code auditor specializing in obfuscation safety analysis.",
      NL, NL, "Analyze the provided Swift source code, AST (Abstract Syntax Tree), and exclusion rule examples ...">>

NoRulesAvailable == <<"No rules available (AST extraction failed)">>

\* `if ast_data:` on the value extract_ast returned
AstPresent(ast_data) == ast_data # None /\ PyTruthy(ast_data)

\* the rule filter is run whatever extract_ast returned
SelectRulesAlways(all_rules, ast_data) ==
    LET filtered_rules == FilterRulesForFile(all_rules, ast_data, DefaultMaxRules) IN
    [ran |-> TRUE, filtered_rules |-> filtered_rules,
     rules_text |-> FormatRulesForPrompt(filtered_rules)]

\* lines 62-71: the rules of the file, and whether the rule filter was run
SelectRules(all_rules, ast_data) ==
    IF AstPresent(ast_data)
    THEN LET filtered_rules == FilterRulesForFile(all_rules, ast_data, DefaultMaxRules) IN
         [ran |-> TRUE, filtered_rules |-> filtered_rules,
          rules_text |-> FormatRulesForPrompt(filtered_rules)]
    ELSE [ran |-> FALSE, filtered_rules |-> <<>>, rules_text |-> NoRulesAvailable]

\* lines 103-127: the input field of the dataset entry
InputText(swift_code, ast_data, rules_text) ==
    IF AstPresent(ast_data)
    THEN <<SourceHeader, NL>> \o SwiftFence \o swift_code \o CloseFence
         \o <<NL, AstHeader, NL>> \o JsonFence \o DumpIndent(ast_data, 0) \o CloseFence
         \o <<NL, "### Example Exclusion Rules (REFERENCE):", NL>> \o rules_text \o <<NL>>
    ELSE <<SourceHeader, NL>> \o SwiftFence \o swift_code \o <<NL, FENCE, NL>>

\* lines 129-133: the prompt sent to the model
FullPrompt(swift_code, ast_data, rules_text) ==
    IF AstPresent(ast_data)
    THEN BuildPrompt(swift_code, ast_data, rules_text)
    ELSE BuildSimplePrompt(swift_code)

\* the entry carries no instruction
DatasetEntryNoInstruction(input_text, result) ==
    [instruction |-> <<>>, input |-> input_text, output |-> JsonDumps(result)]

\* lines 152-156: the dataset entry
DatasetEntry(input_text, result) ==
    [instruction |-> Instruction, input |-> input_text, output |-> JsonDumps(result)]

\* an empty file is processed like any other
IsBlankNever(swift_code) == FALSE

\* line 54: `not swift_code.strip()`
IsBlank(swift_code) == Strip(swift_code) = <<>>

MAX_RETRIES == 3

MAX_WORKERS == 5

\* what one call of the endpoint does: an API error, or a reply text
EndpointOutcomes ==
    {[kind |-> "error"], [kind |-> "reply", text |-> FencedAB]}

\* generate_identifiers(prompt) with use_cache = True, run in one step: whether it
\* raised, the value it returned, the network calls made, the cache afterwards
GenerateIdentifiers(cache, prompt, outcome, how) ==
    IF Readable(EntryAt(cache, prompt))
    THEN [raised |-> FALSE, value |-> Cached(EntryAt(cache, prompt)), net |-> 0,
          cache |-> cache]
    ELSE IF outcome.kind = "error"
    THEN [raised |-> TRUE, value |-> None, net |-> 1, cache |-> cache]
    ELSE LET parsed == RespJson(ParseResponse(Strip(outcome.text))) IN
         [raised |-> FALSE, value |-> parsed, net |-> 1,
          cache |-> CacheWrite(cache, prompt, parsed, how)]

SourceA == <<"class", " ", "A">>

SourceB == <<NL, "func", " ", "b", NL>>

TextFile(content) == [readable |-> TRUE, content |-> content]

\* a file whose read_text raises
UnreadableFile == [readable |-> FALSE, content |-> <<>>]

\* the calls of generate_dataset: the sorted file list and use_parallel
DatasetCalls ==
    {[files |-> <<TextFile(<<>>), TextFile(SourceA), TextFile(SourceB)>>, parallel |-> FALSE],
     [files |-> <<TextFile(SourceB), UnreadableFile, TextFile(SourceB)>>, parallel |-> FALSE],
     [files |-> <<TextFile(SourceA)>>, parallel |-> TRUE],
     [files |-> <<TextFile(SourceA), TextFile(SourceB)>>, parallel |-> TRUE],
     [files |-> <<TextFile(SourceA), TextFile(SourceA)>>, parallel |-> TRUE],
     [files |-> <<TextFile(<<" ", NL>>), UnreadableFile, TextFile(SourceB)>>, parallel |-> TRUE],
     [files |-> <<TextFile(<<>>), TextFile(SourceA), TextFile(SourceB)>>, parallel |-> TRUE]}

\* the rule corpus of the run
PipelineRules == MixedCorpus

\* what the analyzer does in a run of the pipeline
PipelineRuns ==
    {[how |-> "timeout"],
     [how |-> "exit0", stdout |-> JsonDumps(Decisions(<<ClassesA, MethodsB>>))],
     [how |-> "exit0", stdout |-> <<"done">>]}

NoFrame ==
    [swift_code |-> <<>>, analyzer |-> "none", ast_data |-> None, ran |-> FALSE,
     filtered_rules |-> <<>>, rules_text |-> <<>>, input_text |-> <<>>,
     full_prompt |-> <<>>, sent |-> <<>>, attempt |-> 0, result |-> None,
     entry |-> None]

Files == 1..Len(pfiles)

\* the process_single_file calls a worker is running
Running == {i \in Files : pstage[i] \notin {"queued", "submitted", "returned", "collected"}}

PipelineIdle ==
    /\ pfiles = <<>> /\ pparallel = FALSE /\ porch = "off" /\ pnext = 1
    /\ pstage = <<>> /\ pframe = <<>> /\ poutput = <<>> /\ psuccess = 0

\* generate_dataset entered on a fresh output file
InitPipeline ==
    /\ \E call \in DatasetCalls : pfiles = call.files /\ pparallel = call.parallel
    /\ porch = IF pparallel /\ Len(pfiles) > 1 THEN "submit" ELSE "seq"
    /\ pnext = 1
    /\ pstage = [i \in 1..Len(pfiles) |-> "queued"]
    /\ pframe = [i \in 1..Len(pfiles) |-> NoFrame]
    /\ poutput = <<>>
    /\ psuccess = 0
    /\ astCache = [src \in Sources |-> Missing]
    /\ respCache = <<>>
    /\ analyzerExists \in BOOLEAN
    /\ astUseCache = TRUE
    /\ elog = <<>>
    /\ erun = None

\* lines 226-241: executor.submit of the next file
Submit ==
    /\ porch = "submit"
    /\ IF pnext <= Len(pfiles)
       THEN /\ pstage' = [pstage EXCEPT ![pnext] = "submitted"]
            /\ pnext' = pnext + 1
            /\ UNCHANGED porch
       ELSE /\ porch' = "collect"
            /\ UNCHANGED <<pstage, pnext>>
    /\ UNCHANGED <<pfiles, pparallel, pframe, poutput, psuccess, astCache, respCache,
                   outsidePipeline>>

\* a pool worker takes a submitted file
WorkerStart(i) ==
    /\ pstage[i] = "submitted"
    /\ Cardinality(Running) < MAX_WORKERS
    /\ pstage' = [pstage EXCEPT ![i] = "started"]
    /\ UNCHANGED <<pfiles, pparallel, porch, pnext, pframe, poutput, psuccess, astCache,
                   respCache, outsidePipeline>>

\* line 266: the sequential loop calls process_single_file
SeqStart ==
    /\ porch = "seq"
    /\ pnext <= Len(pfiles)
    /\ pstage[pnext] = "queued"
    /\ pstage' = [pstage EXCEPT ![pnext] = "started"]
    /\ UNCHANGED <<pfiles, pparallel, porch, pnext, pframe, poutput, psuccess, astCache,
                   respCache, outsidePipeline>>

\* the exception of an unreadable file leaves process_single_file and ends the run
LoadEscapes(i) ==
    /\ pstage[i] = "started"
    /\ IF pfiles[i].readable /\ ~IsBlank(pfiles[i].content)
       THEN /\ pstage' = [pstage EXCEPT ![i] = "loaded"]
            /\ pframe' = [pframe EXCEPT ![i].swift_code = pfiles[i].content]
            /\ UNCHANGED porch
       ELSE IF pfiles[i].readable
       THEN /\ pstage' = [pstage EXCEPT ![i] = "returned"]
            /\ UNCHANGED <<pframe, porch>>
       ELSE /\ porch' = "done"
            /\ UNCHANGED <<pstage, pframe>>
    /\ UNCHANGED <<pfiles, pparallel, pnext, poutput, psuccess, astCache, respCache,
                   outsidePipeline>>

\* the source is read and an empty file goes on like any other
LoadAny(i) ==
    /\ pstage[i] = "started"
    /\ IF pfiles[i].readable
       THEN /\ pstage' = [pstage EXCEPT ![i] = "loaded"]
            /\ pframe' = [pframe EXCEPT ![i].swift_code = pfiles[i].content]
       ELSE /\ pstage' = [pstage EXCEPT ![i] = "returned"]
            /\ UNCHANGED pframe
    /\ UNCHANGED <<pfiles, pparallel, porch, pnext, poutput, psuccess, astCache, respCache,
                   outsidePipeline>>

\* lines 51-56 and 160-162: the source is read; an empty file is skipped, an
\* unreadable one raises into the except clause
Load(i) ==
    /\ pstage[i] = "started"
    /\ IF pfiles[i].readable /\ ~IsBlank(pfiles[i].content)
       THEN /\ pstage' = [pstage EXCEPT ![i] = "loaded"]
            /\ pframe' = [pframe EXCEPT ![i].swift_code = pfiles[i].content]
       ELSE /\ pstage' = [pstage EXCEPT ![i] = "returned"]
            /\ UNCHANGED pframe
    /\ UNCHANGED <<pfiles, pparallel, porch, pnext, poutput, psuccess, astCache, respCache,
                   outsidePipeline>>

\* line 60: extract_ast
ExtractStep(i) ==
    /\ pstage[i] = "loaded"
    /\ \E run \in PipelineRuns, how \in {"written", "failed"} :
         \E r \in {ExtractAst(astCache, pframe[i].swift_code, astUseCache,
                             analyzerExists, run, how)} :
            /\ astCache' = r.cache
            /\ pframe' = [pframe EXCEPT ![i].ast_data = r.result,
                                        ![i].analyzer = IF r.invoked THEN run.how
                                                        ELSE "none"]
    /\ pstage' = [pstage EXCEPT ![i] = "extracted"]
    /\ UNCHANGED <<pfiles, pparallel, porch, pnext, poutput, psuccess, respCache,
                   outsidePipeline>>

\* lines 62-71: the rules of the file
FilterStep(i) ==
    /\ pstage[i] = "extracted"
    /\ \E sel \in {SelectRules(PipelineRules, pframe[i].ast_data)} :
       pframe' = [pframe EXCEPT ![i].ran = sel.ran,
                                ![i].filtered_rules = sel.filtered_rules,
                                ![i].rules_text = sel.rules_text]
    /\ pstage' = [pstage EXCEPT ![i] = "filtered"]
    /\ UNCHANGED <<pfiles, pparallel, porch, pnext, poutput, psuccess, astCache, respCache,
                   outsidePipeline>>

\* lines 73-133: instruction, input text and full prompt
Assemble(i) ==
    /\ pstage[i] = "filtered"
    /\ \E f \in {pframe[i]} :
       pframe' = [pframe EXCEPT
                    ![i].input_text = InputText(f.swift_code, f.ast_data, f.rules_text),
                    ![i].full_prompt = FullPrompt(f.swift_code, f.ast_data, f.rules_text)]
    /\ pstage' = [pstage EXCEPT ![i] = "assembled"]
    /\ UNCHANGED <<pfiles, pparallel, porch, pnext, poutput, psuccess, astCache, respCache,
                   outsidePipeline>>

\* line 143: generate_with_retry(full_prompt), one pass of its loop per step; the
\* pass of a failed call that is not the last ends with the sleep of line 172
Respond(i) ==
    /\ pstage[i] = "assembled"
    /\ \E outcome \in EndpointOutcomes, how \in {"written", "failed"} :
         \E f \in {pframe[i]} :
         \E g \in {GenerateIdentifiers(respCache, f.full_prompt, outcome, how)} :
         \E sent \in {IF f.attempt = 0 THEN <<f.full_prompt>> ELSE f.sent} :
            /\ respCache' = g.cache
            /\ IF ~g.raised
               THEN /\ pframe' = [pframe EXCEPT ![i].result = g.value, ![i].sent = sent,
                                               ![i].attempt = 0]
                    /\ pstage' = [pstage EXCEPT ![i] = "responded"]
               ELSE IF f.attempt < MAX_RETRIES - 1
               THEN /\ pframe' = [pframe EXCEPT ![i].attempt = f.attempt + 1,
                                               ![i].sent = sent]
                    /\ UNCHANGED pstage
               ELSE /\ pframe' = [pframe EXCEPT ![i].result = EmptyResponse,
                                               ![i].sent = sent, ![i].attempt = 0]
                    /\ pstage' = [pstage EXCEPT ![i] = "responded"]
    /\ UNCHANGED <<pfiles, pparallel, porch, pnext, poutput, psuccess, astCache,
                   outsidePipeline>>

\* lines 145-162: the dataset entry is built and returned; result.get on a value
\* that is no dict raises into the except clause
Return(i) ==
    /\ pstage[i] = "responded"
    /\ \E f \in {pframe[i]} :
       pframe' = [pframe EXCEPT ![i].entry = IF f.result.t = "obj"
                                             THEN DatasetEntry(f.input_text, f.result)
                                             ELSE None]
    /\ pstage' = [pstage EXCEPT ![i] = "returned"]
    /\ UNCHANGED <<pfiles, pparallel, porch, pnext, poutput, psuccess, astCache, respCache,
                   outsidePipeline>>

\* the entry is counted and not written
WrittenNot(i) ==
    /\ psuccess' = psuccess + (IF pframe[i].entry # None THEN 1 ELSE 0)
    /\ UNCHANGED poutput

\* `if result:` and the write, flush and count that follow
Written(i) ==
    IF pframe[i].entry # None
    THEN /\ poutput' = Append(poutput, [file |-> i, entry |-> pframe[i].entry])
         /\ psuccess' = psuccess + 1
    ELSE UNCHANGED <<poutput, psuccess>>

\* lines 243-257: as_completed hands over a finished future
Collect(i) ==
    /\ porch = "collect"
    /\ pstage[i] = "returned"
    /\ Written(i)
    /\ pstage' = [pstage EXCEPT ![i] = "collected"]
    /\ UNCHANGED <<pfiles, pparallel, porch, pnext, pframe, astCache, respCache,
                   outsidePipeline>>

\* lines 268-276: the sequential loop takes the result and goes to the next file
SeqCollect ==
    /\ porch = "seq"
    /\ pnext <= Len(pfiles)
    /\ pstage[pnext] = "returned"
    /\ Written(pnext)
    /\ pstage' = [pstage EXCEPT ![pnext] = "collected"]
    /\ pnext' = pnext + 1
    /\ UNCHANGED <<pfiles, pparallel, porch, pframe, astCache, respCache, outsidePipeline>>

\* lines 278-290: both loops are over
Finish ==
    /\ \/ porch = "seq" /\ pnext > Len(pfiles)
       \/ porch = "collect" /\ \A i \in Files : pstage[i] = "collected"
    /\ porch' = "done"
    /\ UNCHANGED <<pfiles, pparallel, pnext, pstage, pframe, poutput, psuccess, astCache,
                   respCache, outsidePipeline>>

(***************************************************************************)
(* The inference generator (generate_real_world_inference.py):             *)
(* process_single_file without a model call, and the loop of generate.     *)
(***************************************************************************)
RulesHeader == "### Example Exclusion Rules (REFERENCE):"

\* lines 120-145: the input field of the inference entry
InferenceInputText(swift_code, ast_data, rules_text) ==
    IF PyTruthy(ast_data)
    THEN <<SourceHeader, NL>> \o SwiftFence \o swift_code \o CloseFence
         \o <<NL, AstHeader, NL>> \o JsonFence \o DumpIndent(ast_data, 0) \o CloseFence
         \o <<NL, RulesHeader, NL>> \o rules_text \o <<NL>>
    ELSE <<SourceHeader, NL>> \o SwiftFence \o swift_code \o CloseFence
         \o <<NL, RulesHeader, NL>> \o rules_text \o <<NL>>

\* lines 148-151: the entry has no output field
InferenceEntry(input_text) == [instruction |-> INSTRUCTION, input |-> input_text]

\* the file lists given to generate
InferenceCalls ==
    {<<TextFile(SourceA), TextFile(SourceB)>>,
     <<TextFile(<<" ", NL>>), TextFile(SourceA), TextFile(SourceA)>>,
     <<UnreadableFile, TextFile(SourceB), TextFile(SourceA)>>}

NoInferFrame ==
    [swift_code |-> <<>>, ast_data |-> None, rules_text |-> <<>>, entry |-> None]

InferIdle ==
    /\ ifiles = <<>> /\ inext = 1 /\ ipc = "off" /\ iframe = NoInferFrame
    /\ ioutput = <<>>

\* generate entered: the output file is opened with mode 'w'
InitInfer ==
    /\ ifiles \in InferenceCalls
    /\ inext = 1
    /\ ipc = "next"
    /\ iframe = NoInferFrame
    /\ ioutput = <<>>
    /\ astCache = [src \in Sources |-> Missing]
    /\ analyzerExists \in BOOLEAN
    /\ astUseCache = TRUE
    /\ elog = <<>>
    /\ erun = None

\* lines 94-98 and 156-158: the source is read; an empty file is skipped, an
\* unreadable one raises into the except clause
InferLoad ==
    /\ ipc = "next"
    /\ inext <= Len(ifiles)
    /\ IF ifiles[inext].readable /\ ~IsBlank(ifiles[inext].content)
       THEN /\ iframe' = [NoInferFrame EXCEPT !.swift_code = ifiles[inext].content]
            /\ ipc' = "loaded"
       ELSE /\ iframe' = NoInferFrame
            /\ ipc' = "returned"
    /\ UNCHANGED <<ifiles, inext, ioutput, astCache, outsideInfer>>

\* lines 102-108: extract_ast; a falsy result becomes the empty list
InferExtract ==
    /\ ipc = "loaded"
    /\ \E run \in PipelineRuns, how \in {"written", "failed"} :
         \E r \in {ExtractAst(astCache, iframe.swift_code, astUseCache, analyzerExists,
                             run, how)} :
            /\ astCache' = r.cache
            /\ iframe' = [iframe EXCEPT !.ast_data = IF AstPresent(r.result)
                                                    THEN r.result ELSE JList(<<>>)]
    /\ ipc' = "extracted"
    /\ UNCHANGED <<ifiles, inext, ioutput, outsideInfer>>

\* lines 111-117: the rules of the file (max_rules = 20)
InferFilter ==
    /\ ipc = "extracted"
    /\ \E sel \in {SelectRules(PipelineRules, iframe.ast_data)} :
         iframe' = [iframe EXCEPT !.rules_text = sel.rules_text]
    /\ ipc' = "filtered"
    /\ UNCHANGED <<ifiles, inext, ioutput, astCache, outsideInfer>>

\* lines 120-154: the input text and the entry
InferAssemble ==
    /\ ipc = "filtered"
    /\ iframe' = [iframe EXCEPT !.entry =
                     InferenceEntry(InferenceInputText(iframe.swift_code, iframe.ast_data,
                                                       iframe.rules_text))]
    /\ ipc' = "returned"
    /\ UNCHANGED <<ifiles, inext, ioutput, astCache, outsideInfer>>

\* lines 190-195: `if result:` and the write that follows
InferTake ==
    /\ ipc = "returned"
    /\ ioutput' = IF iframe.entry # None
                  THEN Append(ioutput, [file |-> inext, entry |-> iframe.entry])
                  ELSE ioutput
    /\ inext' = inext + 1
    /\ ipc' = "next"
    /\ UNCHANGED <<ifiles, iframe, astCache, outsideInfer>>

\* lines 199-213: the loop is over
InferFinish ==
    /\ ipc = "next"
    /\ inext > Len(ifiles)
    /\ ipc' = "done"
    /\ UNCHANGED <<ifiles, inext, iframe, ioutput, astCache, outsideInfer>>

(***************************************************************************)
(* generate_dataset over several runs (generators/dataset_generator.py,    *)
(* lines 164-290).  process_single_file is reduced to its outcome: an      *)
(* entry, or None for a file that is empty or cannot be read.  The output  *)
(* file is kept between runs; a run may be terminated from outside.        *)
(***************************************************************************)
MaxRuns == 2

\* one more file than the pool has workers
PoolBatch == MAX_WORKERS + 1

\* the scenarios: the files found (n: total_files of the current run),
\* use_parallel, the files for which process_single_file returns None, the
\* number of runs, and the limit argument of each run (0: None, the default
\* when a run has none)
Scenario(n, parallel, failing, runs, limits) ==
    [n |-> n, found |-> n, parallel |-> parallel, failing |-> failing, runs |-> runs,
     limits |-> limits]

BatchScenarios ==
    {Scenario(3, FALSE, {1}, MaxRuns, <<>>),
     Scenario(3, FALSE, {}, MaxRuns, <<>>),
     Scenario(3, TRUE, {}, MaxRuns, <<>>),
     Scenario(3, TRUE, {2}, MaxRuns, <<>>),
     Scenario(1, TRUE, {}, MaxRuns, <<>>),
     Scenario(PoolBatch, TRUE, {}, 1, <<>>),
     Scenario(0, TRUE, {}, MaxRuns, <<>>),
     Scenario(2, FALSE, {1, 2}, MaxRuns, <<>>),
     Scenario(3, FALSE, {}, MaxRuns, <<2, 1>>)}

NoCall == Scenario(0, FALSE, {}, 0, <<>>)

\* lines 182-185: total_files of the given run; a limit of None (or 0) leaves
\* the list as found
TotalFiles(call, run) ==
    LET limit == IF run \in DOMAIN call.limits THEN call.limits[run] ELSE 0
    IN  IF limit # 0 /\ limit < call.found THEN limit ELSE call.found

\* the pieces of the output text: the JSON of the entry of file i, and "\n"
Rec(i) == [t |-> "rec", file |-> i]

Newline == [t |-> "nl", file |-> 0]

\* the record is written without its newline
WriteLineUnterminated(content, i) == content \o <<Rec(i)>>

\* lines 252 and 270: f.write(json.dumps(result, ensure_ascii=False) + '\n')
WriteLine(content, i) == content \o <<Rec(i), Newline>>

\* lines 193-194: the lines of the output text that are not blank
NonBlankLines(content) ==
    Cardinality({k \in 1..Len(content) :
                    content[k].t = "rec" /\ (k = 1 \/ content[k - 1].t = "nl")})

\* no record of the output file is counted
ProcessedCountNone(content) == 0

\* lines 188-202: len(processed_files); a line that is no JSON document (two
\* records run together) raises, and processed_files is emptied
ProcessedCount(content) ==
    IF \E k \in 1..(Len(content) - 1) : content[k].t = "rec" /\ content[k + 1].t = "rec"
    THEN 0
    ELSE NonBlankLines(content)

BFiles == 1..bcall.n

\* the process_single_file calls that are executing
BRunning == {i \in BFiles : bfut[i] = "running"}

\* lines 221: the pool is used
PoolMode == bcall.parallel /\ bcall.n > 1

\* any number of workers
PoolUnbounded == TRUE

\* line 223: ThreadPoolExecutor(max_workers=MAX_WORKERS) has a worker to spare
PoolHasFreeWorker == Cardinality(BRunning) < MAX_WORKERS

\* a record is written while another one is not yet flushed
WriterFreeAlways == TRUE

\* lines 244-257 and 261-276: the loop body that writes runs for one result at
\* a time, in the thread of generate_dataset
WriterFree == bwriting = {}

BatchIdle ==
    /\ bcall = NoCall /\ bpc = "off" /\ bi = 1 /\ bskip = 0 /\ bfut = <<>>
    /\ bout = <<>> /\ bwriting = {} /\ bsuccess = 0 /\ bruns = 0 /\ bexit = <<>>
    /\ bdone = <<>> /\ bfirst = {} /\ bstart = 0

\* before the first run: no output file
InitBatch ==
    /\ bcall \in BatchScenarios
    /\ bpc = "enter" /\ bi = 1 /\ bskip = 0
    /\ bfut = [i \in 1..bcall.n |-> "idle"]
    /\ bout = <<>> /\ bwriting = {} /\ bsuccess = 0 /\ bruns = 0 /\ bexit = <<>>
    /\ bdone = <<>> /\ bfirst = {} /\ bstart = 0

\* the count starts at zero in every run
InitialSuccessZero(content) == 0

\* line 215: success_count starts at the number of records found in the file
InitialSuccess(content) == ProcessedCount(content)

\* main.py lines 60-66: the value main returns to exit()
MainReturn(success_count) == IF success_count > 0 THEN 0 ELSE 1

\* lines 176-221: generate_dataset is entered, for the first time or again after
\* a run that ended or was terminated; the records of the output file are counted
EnterRun ==
    /\ bpc \in {"enter", "done", "killed"}
    /\ bruns < bcall.runs
    /\ bruns' = bruns + 1
    /\ bi' = 1
    /\ bdone' = <<>>
    /\ bfirst' = {}
    /\ bstart' = Len(bout)
    /\ IF bcall.found = 0
       THEN \* lines 178-180: no file is found, generate_dataset returns 0
            /\ bfut' = <<>>
            /\ bskip' = 0
            /\ bsuccess' = 0
            /\ bpc' = "done"
            /\ bexit' = <<MainReturn(0)>>
            /\ UNCHANGED bcall
       ELSE /\ bcall' = [bcall EXCEPT !.n = TotalFiles(bcall, bruns + 1)]
            /\ bfut' = [i \in 1..bcall'.n |-> "idle"]
            /\ bskip' = ProcessedCount(bout)
            /\ bsuccess' = InitialSuccess(bout)
            /\ bpc' = IF bcall.parallel /\ bcall'.n > 1 THEN "submit" ELSE "seq"
            /\ bexit' = <<>>
    /\ UNCHANGED <<bout, bwriting, outsideBatch>>

\* lines 226-241: the submitting loop: a file below the skip count is passed
\* over, any other is submitted to the pool
BSubmit ==
    /\ bpc = "submit"
    /\ IF bi <= bcall.n
       THEN /\ bfut' = [bfut EXCEPT ![bi] = IF bi - 1 < bskip THEN "skipped" ELSE "submitted"]
            /\ bi' = bi + 1
            /\ UNCHANGED bpc
            /\ UNCHANGED bfirst
       ELSE \* line 244: as_completed is called; the futures that are finished by
            \* now are set aside and handed over first, in the order of a set
            /\ bpc' = "collect"
            /\ bfirst' = {i \in BFiles : bfut[i] \in {"entry", "none"}}
            /\ UNCHANGED <<bfut, bi>>
    /\ UNCHANGED <<bcall, bskip, bout, bwriting, bsuccess, bruns, bexit, bdone, bstart,
                   outsideBatch>>

\* a pool worker takes a submitted file
BWorkerStart(i) ==
    /\ bfut[i] = "submitted"
    /\ PoolHasFreeWorker
    /\ bfut' = [bfut EXCEPT ![i] = "running"]
    /\ UNCHANGED <<bcall, bpc, bi, bskip, bout, bwriting, bsuccess, bruns, bexit, batchOrder,
                   outsideBatch>>

\* lines 261-267: the sequential loop: a file below the skip count is passed
\* over, any other is processed in the loop itself
BSeqNext ==
    /\ bpc = "seq"
    /\ bi <= bcall.n
    /\ bfut[bi] = "idle"
    /\ IF bi - 1 < bskip
       THEN /\ bfut' = [bfut EXCEPT ![bi] = "skipped"]
            /\ bi' = bi + 1
       ELSE /\ bfut' = [bfut EXCEPT ![bi] = "running"]
            /\ UNCHANGED bi
    /\ UNCHANGED <<bcall, bpc, bskip, bout, bwriting, bsuccess, bruns, bexit, batchOrder,
                   outsideBatch>>

\* process_single_file returns
BWorkerEnd(i) ==
    /\ bfut[i] = "running"
    /\ bfut' = [bfut EXCEPT ![i] = IF i \in bcall.failing THEN "none" ELSE "entry"]
    /\ bdone' = Append(bdone, i)
    /\ UNCHANGED <<bcall, bpc, bi, bskip, bout, bwriting, bsuccess, bruns, bexit, bfirst, bstart,
                   outsideBatch>>

\* `if result:` f.write(...): the line of file i is written
TakeResult(i) ==
    /\ bdone' = SelectSeq(bdone, LAMBDA j : j # i)
    /\ IF bfut[i] = "entry"
       THEN /\ bout' = WriteLine(bout, i)
            /\ bwriting' = bwriting \cup {i}
            /\ bfut' = [bfut EXCEPT ![i] = "written"]
       ELSE /\ bfut' = [bfut EXCEPT ![i] = "collected"]
            /\ UNCHANGED <<bout, bwriting>>

\* the finished futures as_completed has not handed over yet
NotHandedOver == {i \in BFiles : bfut[i] \in {"entry", "none"}}

\* position of file i in the order of return
DoneAt(i) == CHOOSE k \in 1..Len(bdone) : bdone[k] = i

\* any finished future may be handed over next
HandsOverAny(i) == i \in NotHandedOver

\* concurrent.futures.as_completed: the futures found finished at the call come
\* first, in the iteration order of a set; the others follow as they finish
HandsOver(i) ==
    /\ i \in NotHandedOver
    /\ \/ i \in bfirst
       \/ /\ bfirst \cap NotHandedOver = {}
          /\ \A j \in NotHandedOver : DoneAt(i) <= DoneAt(j)

\* lines 244-252: as_completed hands over a finished future
BCollect(i) ==
    /\ bpc = "collect"
    /\ HandsOver(i)
    /\ WriterFree
    /\ TakeResult(i)
    /\ UNCHANGED <<bcall, bpc, bi, bskip, bsuccess, bruns, bexit, bfirst, bstart, outsideBatch>>

\* lines 267-270: the sequential loop has the result of file i
BSeqTake ==
    /\ bpc = "seq"
    /\ bi <= bcall.n
    /\ bfut[bi] \in {"entry", "none"}
    /\ WriterFree
    /\ TakeResult(bi)
    /\ bi' = IF bfut[bi] = "none" THEN bi + 1 ELSE bi
    /\ UNCHANGED <<bcall, bpc, bskip, bsuccess, bruns, bexit, bfirst, bstart, outsideBatch>>

\* lines 253-254 and 271-272: f.flush() and success_count += 1
BFlush(i) ==
    /\ bpc \in {"collect", "seq"}
    /\ i \in bwriting
    /\ bfut[i] = "written"
    /\ bwriting' = bwriting \ {i}
    /\ bsuccess' = bsuccess + 1
    /\ bfut' = [bfut EXCEPT ![i] = "collected"]
    /\ bi' = IF bpc = "seq" THEN bi + 1 ELSE bi
    /\ UNCHANGED <<bcall, bpc, bskip, bout, bruns, bexit, batchOrder, outsideBatch>>

\* lines 278-290 and main.py lines 60-66: both loops are over, success_count
\* is returned, and main turns it into the exit status
BFinish ==
    /\ \/ bpc = "seq" /\ bi > bcall.n
       \/ bpc = "collect" /\ \A i \in BFiles : bfut[i] \in {"skipped", "collected"}
    /\ bpc' = "done"
    /\ bexit' = <<MainReturn(bsuccess)>>
    /\ UNCHANGED <<bcall, bi, bskip, bfut, bout, bwriting, bsuccess, bruns, batchOrder,
                   outsideBatch>>

\* the process is terminated and no line of the run was flushed: the lines the
\* run wrote are kept or lost together
BKillNoFlush ==
    /\ bpc \in {"submit", "collect", "seq"}
    /\ bpc' = "killed"
    /\ bout' \in {bout, SubSeq(bout, 1, bstart)}
    /\ bwriting' = {}
    /\ bfut' = [i \in BFiles |-> "idle"]
    /\ bi' = 1
    /\ bdone' = <<>>
    /\ bfirst' = {}
    /\ UNCHANGED <<bcall, bskip, bsuccess, bruns, bexit, bstart, outsideBatch>>

\* the process is terminated from outside: the output file keeps what was
\* flushed; a line written and not flushed is kept or lost
BKill ==
    /\ bpc \in {"submit", "collect", "seq"}
    /\ bpc' = "killed"
    /\ bout' \in IF bwriting = {} THEN {bout} ELSE {bout, SubSeq(bout, 1, Len(bout) - 2)}
    /\ bwriting' = {}
    /\ bfut' = [i \in BFiles |-> "idle"]
    /\ bi' = 1
    /\ bdone' = <<>>
    /\ bfirst' = {}
    /\ UNCHANGED <<bcall, bskip, bsuccess, bruns, bexit, bstart, outsideBatch>>

(***************************************************************************)
(* Pool workers at one cache entry: the cache check and the cache write of *)
(* extract_ast (analyzers/ast_analyzer.py, lines 45-55 and 113-120) and of *)
(* generate_identifiers (handlers/claude_handler.py, lines 45-82), step by *)
(* step.  write_text opens the file, which empties it, and writes the text *)
(* at the offset of its own file object, piece by piece.                   *)
(***************************************************************************)
RaceWorkers == 1..3

\* the number of atoms a write hands to the file at a time
RaceChunk == 4

\* TEMPERATURE = 0.2: the replies two calls with one prompt may get
RaceReplies == {FencedAB, HereXY, NoStructure}

\* the texts a worker may write to the entry: the analyzer gives one document
\* for one source; the endpoint samples its reply
RaceTexts(kind) ==
    IF kind = "ast"
    THEN {DumpIndent(FromStdout(JsonDumps(Decisions(<<ClassesA>>))), 0)}
    ELSE {JsonDumps(RespJson(ParseResponse(Strip(reply)))) : reply \in RaceReplies}

NoWorker == [pc |-> "check", doc |-> <<>>, pos |-> 0, got |-> None]

RaceIdle == ckind = "ast" /\ cfile = Missing /\ cw = <<>>

\* the workers are about to check the cache; the entry does not exist
InitRace ==
    /\ ckind \in {"ast", "response"}
    /\ cfile = Missing
    /\ cw = [w \in RaceWorkers |-> NoWorker]

\* the cache check with the decoding error not caught
RaceCheckUncaught(w) ==
    /\ cw[w].pc = "check"
    /\ cw' = [cw EXCEPT ![w] =
                IF cfile.kind # "file" THEN [@ EXCEPT !.pc = "miss"]
                ELSE IF Readable(cfile) THEN [@ EXCEPT !.pc = "hit", !.got = Cached(cfile)]
                ELSE [@ EXCEPT !.pc = "raised"]]
    /\ UNCHANGED <<ckind, cfile, outsideRace>>

\* ast_analyzer.py lines 46-55, claude_handler.py lines 46-54: the file is read
\* and decoded; a file that is not there or does not decode is a miss
RaceCheck(w) ==
    /\ cw[w].pc = "check"
    /\ cw' = [cw EXCEPT ![w] =
                IF Readable(cfile) THEN [@ EXCEPT !.pc = "hit", !.got = Cached(cfile)]
                ELSE [@ EXCEPT !.pc = "miss"]]
    /\ UNCHANGED <<ckind, cfile, outsideRace>>

\* ast_analyzer.py lines 57-111, claude_handler.py lines 56-73: the analyzer or
\* the endpoint is called; it gives a value, or the call ends without one
RaceCompute(w) ==
    /\ cw[w].pc = "miss"
    /\ \/ \E doc \in RaceTexts(ckind) : cw' = [cw EXCEPT ![w].pc = "open", ![w].doc = doc]
       \/ cw' = [cw EXCEPT ![w].pc = "failed"]
    /\ UNCHANGED <<ckind, cfile, outsideRace>>

\* write_text opens the file with mode 'w': the file is emptied
RaceOpen(w) ==
    /\ cw[w].pc = "open"
    /\ cfile' = File(<<>>)
    /\ cw' = [cw EXCEPT ![w].pc = "write", ![w].pos = 0]
    /\ UNCHANGED <<ckind, outsideRace>>

\* the file after `chunk` is written at offset `pos`
WriteAt(content, pos, chunk) ==
    [k \in 1..(IF Len(content) > pos + Len(chunk) THEN Len(content) ELSE pos + Len(chunk)) |->
        IF k > pos /\ k <= pos + Len(chunk) THEN chunk[k - pos]
        ELSE IF k <= Len(content) THEN content[k]
        ELSE NUL]

\* ast_analyzer.py line 118, claude_handler.py line 79: the next piece of the
\* document is written
RaceWrite(w) ==
    /\ cw[w].pc = "write"
    /\ \E n \in {IF Len(cw[w].doc) - cw[w].pos > RaceChunk THEN RaceChunk
                 ELSE Len(cw[w].doc) - cw[w].pos} :
          /\ cfile' = File(WriteAt(cfile.content, cw[w].pos,
                                   SubSeq(cw[w].doc, cw[w].pos + 1, cw[w].pos + n)))
          /\ cw' = [cw EXCEPT ![w].pos = @ + n,
                              ![w].pc = IF cw[w].pos + n = Len(cw[w].doc)
                                        THEN "written" ELSE "write"]
    /\ UNCHANGED <<ckind, outsideRace>>

(***************************************************************************)
(* Specifications                                                          *)
(***************************************************************************)
InitParserSpec ==
    /\ InitParser
    /\ HandlerIdle
    /\ ExtractorIdle
    /\ FilterIdle
    /\ PipelineIdle
    /\ BatchIdle
    /\ TempIdle
    /\ InferIdle
    /\ RaceIdle

NextParser == TryTier1 \/ TryTier2 \/ TryTier3

SpecParser == InitParserSpec /\ [][NextParser]_vars

InitHandler ==
    /\ respCache = [p \in Prompts |-> Missing]
    /\ GenIdle
    /\ RetryIdle
    /\ ParserIdle
    /\ ExtractorIdle
    /\ FilterIdle
    /\ PipelineIdle
    /\ BatchIdle
    /\ TempIdle
    /\ InferIdle
    /\ RaceIdle

NextHandler ==
    \/ \E prompt \in Prompts, use_cache \in BOOLEAN : CallGenerate(prompt, use_cache)
    \/ GenCacheCheck
    \/ GenApiCall
    \/ GenFinish
    \/ \E prompt \in Prompts, max_retries \in 0..MaxRetriesArg : CallRetry(prompt, max_retries)
    \/ RetryLoop
    \/ RetryReturn
    \/ RetryExcept
    \/ RetryFinish

SpecHandler == InitHandler /\ [][NextHandler]_vars

NextExtractor ==
    \/ \E source \in Sources : Extract(source)
    \/ \E code \in Sources : TempCreate(code)
    \/ TempDelegate
    \/ TempFinally

InitExtractorSpec ==
    /\ InitExtractor
    /\ ParserIdle
    /\ HandlerIdle
    /\ FilterIdle
    /\ PipelineIdle
    /\ BatchIdle
    /\ TempIdle
    /\ InferIdle
    /\ RaceIdle

SpecExtractor == InitExtractorSpec /\ [][NextExtractor]_vars

NextFilter == Construct \/ FilterForFile \/ FormatForPrompt

InitFilterSpec ==
    /\ InitFilter
    /\ ParserIdle
    /\ HandlerIdle
    /\ ExtractorIdle
    /\ PipelineIdle
    /\ BatchIdle
    /\ TempIdle
    /\ InferIdle
    /\ RaceIdle

SpecFilter == InitFilterSpec /\ [][NextFilter]_vars

InitPipelineSpec ==
    /\ InitPipeline
    /\ ParserIdle
    /\ GenIdle
    /\ RetryIdle
    /\ FilterIdle
    /\ BatchIdle
    /\ TempIdle
    /\ InferIdle
    /\ RaceIdle

NextPipeline ==
    \/ Submit
    \/ \E i \in Files : WorkerStart(i)
    \/ SeqStart
    \/ \E i \in Files : Load(i)
    \/ \E i \in Files : ExtractStep(i)
    \/ \E i \in Files : FilterStep(i)
    \/ \E i \in Files : Assemble(i)
    \/ \E i \in Files : Respond(i)
    \/ \E i \in Files : Return(i)
    \/ \E i \in Files : Collect(i)
    \/ SeqCollect
    \/ Finish

SpecPipeline == InitPipelineSpec /\ [][NextPipeline]_vars

\* every subprocess and network call returns or fails, and the threads of the
\* pool and the thread of generate_dataset are scheduled: the run does not stop
\* while it has a step to take
InitBatchSpec ==
    /\ InitBatch
    /\ ParserIdle
    /\ HandlerIdle
    /\ ExtractorIdle
    /\ FilterIdle
    /\ PipelineIdle
    /\ TempIdle
    /\ InferIdle
    /\ RaceIdle

NextBatch ==
    \/ EnterRun
    \/ BSubmit
    \/ \E i \in BFiles : BWorkerStart(i)
    \/ BSeqNext
    \/ \E i \in BFiles : BWorkerEnd(i)
    \/ \E i \in BFiles : BCollect(i)
    \/ BSeqTake
    \/ \E i \in BFiles : BFlush(i)
    \/ BFinish
    \/ BKill

SpecBatch == InitBatchSpec /\ [][NextBatch]_vars

(***************************************************************************)
(* Termination: a series of calls of the handler, or a series of runs of   *)
(* generate_dataset over the smaller file lists, each on its own, under    *)
(* the assumption that every call that was started returns or fails        *)
(***************************************************************************)
TerminationScenarios == {call \in BatchScenarios : call.found <= 3}

InitTermination ==
    \/ InitHandler
    \/ InitBatchSpec /\ bcall \in TerminationScenarios

\* a call of the handler starts only where no run is modelled
NextTermination ==
    \/ \E prompt \in Prompts, use_cache \in BOOLEAN :
          bpc = "off" /\ CallGenerate(prompt, use_cache)
    \/ \E prompt \in Prompts, max_retries \in 0..MaxRetriesArg :
          bpc = "off" /\ CallRetry(prompt, max_retries)
    \/ GenCacheCheck
    \/ GenApiCall
    \/ GenFinish
    \/ RetryLoop
    \/ RetryReturn
    \/ RetryExcept
    \/ RetryFinish
    \/ NextBatch

\* claude_handler.py lines 88-141: a generate_identifiers call in progress
\* moves on: the cache lookup ends, the network call returns or fails
GenMoves ==
    /\ hpc \in {"check", "api"}
    /\ hpc' \in {"api", "returned", "raised"}
    /\ hpc' # hpc

\* the loop of generate_with_retry runs: no step of it waits for anything but
\* the call it made and the sleep it started
RetryMoves == RetryLoop \/ RetryReturn \/ RetryExcept

\* dataset_generator.py lines 223-276: the workers and the loop of
\* generate_dataset run as long as the process is not stopped
RunMoves ==
    \/ BSubmit
    \/ BSeqNext
    \/ BSeqTake
    \/ BFinish
    \/ \E i \in BFiles : BWorkerStart(i) \/ BWorkerEnd(i) \/ BCollect(i) \/ BFlush(i)

SpecTermination ==
    /\ InitTermination
    /\ [][NextTermination]_vars
    /\ WF_hpc(GenMoves)
    /\ WF_vars(RetryMoves)
    /\ WF_vars(RunMoves)

InitInferSpec ==
    /\ InitInfer
    /\ ParserIdle
    /\ HandlerIdle
    /\ FilterIdle
    /\ PipelineIdle
    /\ BatchIdle
    /\ TempIdle
    /\ RaceIdle

NextInfer ==
    \/ InferLoad
    \/ InferExtract
    \/ InferFilter
    \/ InferAssemble
    \/ InferTake
    \/ InferFinish

SpecInference == InitInferSpec /\ [][NextInfer]_vars

InitRaceSpec ==
    /\ InitRace
    /\ ParserIdle
    /\ HandlerIdle
    /\ ExtractorIdle
    /\ FilterIdle
    /\ PipelineIdle
    /\ BatchIdle
    /\ TempIdle
    /\ InferIdle

NextRace ==
    \/ \E w \in RaceWorkers : RaceCheck(w)
    \/ \E w \in RaceWorkers : RaceCompute(w)
    \/ \E w \in RaceWorkers : RaceOpen(w)
    \/ \E w \in RaceWorkers : RaceWrite(w)

SpecRace == InitRaceSpec /\ [][NextRace]_vars

(***************************************************************************)
(* Properties of the response handler                                      *)
(***************************************************************************)
\* C1: when generate_identifiers is called with caching on and the cache file of
\* the prompt is readable at that moment, the call returns exactly the value
\* stored in the file (for a file written from a parsed reply: that parsed
\* response) and makes no network call.
Thm_C1 ==
    (hpc = "returned" /\ huse /\ Readable(hentry)) =>
        /\ hresult = Cached(hentry)
        /\ hnet = 0
        /\ \A reply \in EndpointReplies :
             hentry = File(JsonDumps(RespJson(ParseResponse(Strip(reply)))))
                 => hresult = RespJson(ParseResponse(Strip(reply)))

\* a cache hit that returns an identifier holding a newline, with no network call
Witness_C1 ==
    /\ hpc = "returned" /\ huse /\ Readable(hentry)
    /\ hnet = 0
    /\ hresult = RespJson(Resp(<< <<"a", NL, "b">> >>))

(***************************************************************************)
(* Properties of the symbol extractor                                      *)
(***************************************************************************)
\* successive calls of extract_ast on the same source text
SuccessiveCalls ==
    {i \in 1..(Len(elog) - 1) : elog[i].source = elog[i + 1].source}

Invocations(i) ==
    (IF elog[i].invoked THEN 1 ELSE 0) + (IF elog[i + 1].invoked THEN 1 ELSE 0)

\* C2: for any source text and any analyzer behaviour, two successive calls of
\* extract_ast on byte-identical source text start at most one analyzer
\* subprocess in total and return equal results.
Claim_C2 ==
    astUseCache =>
        \A i \in SuccessiveCalls :
            /\ Invocations(i) <= 1
            /\ elog[i].result = elog[i + 1].result

\* C2 (amended): with caching on, when a call of extract_ast returned a symbol
\* list that is stored in the cache file of the source text (its cache write
\* landed, or the call was itself a cache hit), the next call on byte-identical
\* source text starts no subprocess and returns an equal list, so the two calls
\* start at most one subprocess in total.
Thm_C2 ==
    astUseCache =>
        \A i \in SuccessiveCalls :
            elog[i].stored =>
                /\ ~elog[i + 1].invoked
                /\ elog[i + 1].result = elog[i].result
                /\ Invocations(i) <= 1

\* the analyzer ran once, its flattened list was cached, and the second call
\* answered from the cache
Witness_C2 ==
    \E i \in SuccessiveCalls :
        /\ astUseCache
        /\ elog[i].invoked /\ elog[i].stored
        /\ ~elog[i + 1].invoked
        /\ elog[i].result = JList(<<Sym("A"), Sym("b")>>)
        /\ elog[i + 1].result = elog[i].result

\* the latest call of extract_ast
LastCall == elog[Len(elog)]

\* the latest call ran the analyzer, which exited 0
Printed == elog # <<>> /\ LastCall.invoked /\ erun # None /\ erun.how = "exit0"

\* the JSON document the analyzer printed after its log lines: the text from
\* the first `opening` mark on
Document(stdout, opening) ==
    LET output == Strip(stdout)
        at == Find(output, opening)
    IN IF at = 0 THEN Fail ELSE JsonLoads(Slice(output, at, Len(output)))

\* the analyzer printed an object with a decisions object
PrintedDecisions(stdout, doc) ==
    LET ast_data == PyValue(doc.v)
    IN /\ ~Contains(Strip(stdout), NoSwiftFiles)
       /\ doc.ok
       /\ doc.v.t = "obj"
       /\ HasKey(ast_data.o, <<"decisions">>)
       /\ Lookup(ast_data.o, <<"decisions">>).t = "obj"

\* the decisions object of the printed document
DecisionsOf(doc) == Lookup(PyValue(doc.v).o, <<"decisions">>).o

ClaimedOrder ==
    <<"classes", "structs", "enums", "protocols", "methods", "properties", "variables",
      "enumCases", "initializers", "deinitializers", "subscripts", "extensions">>

\* the list under `key` of the decisions object, nothing when the key is
\* missing or its value is no list
ListUnder(decisions, key) ==
    LET at == {i \in 1..Len(decisions) :
                  decisions[i][1] = <<key>> /\ decisions[i][2].t = "list"}
    IN IF at = {} THEN <<>> ELSE decisions[CHOOSE i \in at : TRUE][2].l

RECURSIVE ListsInOrder(_, _)
ListsInOrder(decisions, k) ==
    IF k > Len(ClaimedOrder) THEN <<>>
    ELSE ListUnder(decisions, ClaimedOrder[k]) \o ListsInOrder(decisions, k + 1)

\* C15: when the analyzer prints an object with a decisions object, extract_ast
\* returns the concatenation of the lists under the twelve category keys in
\* the fixed order classes, structs, enums, protocols, methods, properties,
\* variables, enumCases, initializers, deinitializers, subscripts, extensions,
\* whatever the order of the keys in the output, unknown keys and values that
\* are no lists left out; when that concatenation is empty it returns None.
Thm_C15 ==
    Printed =>
        LET doc == Document(erun.stdout, "{")
            decisions == DecisionsOf(doc)
            lists == ListsInOrder(decisions, 1)
        IN
        PrintedDecisions(erun.stdout, doc) =>
        /\ LastCall.result = IF lists = <<>> THEN None ELSE JList(lists)
        /\ erun.stdout = JsonDumps(Decisions(<<ClassesA, MethodsB>>))
              => LastCall.result = JList(<<Sym("A"), Sym("b")>>)
        /\ (\A i \in 1..Len(decisions) :
               decisions[i][1] = <<"other">>
               \/ decisions[i][2].t # "list"
               \/ decisions[i][2].l = <<>>)
              => LastCall.result = None

\* the methods printed before the classes, after a log line: the class comes
\* first in the result
Witness_C15 ==
    /\ Printed
    /\ erun.stdout = <<"Parsing", " ", "file", NL>>
                         \o JsonDumps(Decisions(<<MethodsB, ClassesA>>)) \o <<NL>>
    /\ LastCall.result = JList(<<Sym("A"), Sym("b")>>)

\* the analyzer printed, after its log lines, a JSON array
PrintedArray(stdout) ==
    /\ ~Contains(Strip(stdout), NoSwiftFiles)
    /\ Document(stdout, "[").ok
    /\ Document(stdout, "[").v.t = "list"
    /\ \A k \in 1..(Find(Strip(stdout), "[") - 1) : Strip(stdout)[k] # "{"

\* the analyzer printed an object that has no decisions key
PrintedBareObject(stdout) ==
    /\ ~Contains(Strip(stdout), NoSwiftFiles)
    /\ Document(stdout, "{").ok
    /\ Document(stdout, "{").v.t = "obj"
    /\ ~HasKey(PyValue(Document(stdout, "{").v).o, <<"decisions">>)

\* C16: all three output shapes are accepted: when the analyzer exits 0 and
\* prints a bare JSON array of symbol objects (log lines before it or not),
\* extract_ast returns that array as it is; when it prints a bare object
\* without decisions, extract_ast returns the one-element list holding it.
Claim_C16 ==
    Printed =>
        /\ PrintedArray(erun.stdout)
              => LastCall.result = PyValue(Document(erun.stdout, "[").v)
        /\ PrintedBareObject(erun.stdout)
              => LastCall.result = JList(<<PyValue(Document(erun.stdout, "{").v)>>)

\* the cause that makes the analyzer step fail
FailureCause(run) ==
    \/ run.how \in {"nonzero", "timeout"}
    \/ /\ run.how = "exit0"
       /\ \/ Contains(Strip(run.stdout), NoSwiftFiles)
          \/ Find(Strip(run.stdout), "{") = 0
          \/ ~Document(run.stdout, "{").ok

\* C17: on a cache miss each failure of the analyzer step (executable missing,
\* non-zero exit code, timeout, the "No Swift files found" marker in the
\* output, no opening brace, JSON that does not decode) makes extract_ast
\* return None and leaves the AST cache as it was; when the executable is
\* missing no subprocess is started.
Thm_C17 ==
    elog # <<>> =>
        /\ (~LastCall.hit /\ ~analyzerExists) =>
              /\ LastCall.result = None
              /\ ~LastCall.invoked /\ erun = None
              /\ LastCall.kept
        /\ (LastCall.invoked /\ FailureCause(erun)) =>
              /\ ~LastCall.hit
              /\ LastCall.result = None
              /\ LastCall.kept
        /\ LastCall.invoked => (analyzerExists /\ ~LastCall.hit)

\* the analyzer printed the marker and then a decisions object: None, and the
\* cache file left by an interrupted write of an earlier call is as it was
Witness_C17 ==
    /\ Len(elog) = 2
    /\ LastCall.invoked /\ erun.how = "exit0"
    /\ erun.stdout = <<NoSwiftFiles, ".", NL>> \o JsonDumps(Decisions(<<ClassesA>>))
    /\ LastCall.result = None /\ LastCall.kept
    /\ astCache[LastCall.source].kind = "file"

\* a non-empty list
NonEmptyList(v) == v # None /\ v.t = "list" /\ Len(v.l) >= 1

\* C18: every value extract_ast returns is None or a non-empty list, also when
\* it is answered from the cache, and every cache file the extractor has
\* written that decodes holds a non-empty list.
Thm_C18 ==
    /\ \A i \in 1..Len(elog) :
         /\ elog[i].result = None \/ NonEmptyList(elog[i].result)
         /\ elog[i].hit => NonEmptyList(elog[i].result)
    /\ \A src \in DOMAIN astCache :
         astCache[src].kind = "file" =>
             LET loaded == JsonLoads(astCache[src].content) IN
             loaded.ok => NonEmptyList(PyValue(loaded.v))
    /\ tpc \in {"returned", "done"} => (tresult = None \/ NonEmptyList(tresult))
    /\ (Printed /\ LastCall.result # None) =>
          LET doc == Document(erun.stdout, "{") IN
          PrintedDecisions(erun.stdout, doc) => ListsInOrder(DecisionsOf(doc), 1) # <<>>

\* the bare object was wrapped into a list of one element and cached, and the
\* next call on the same text was answered from the cache with that list
Witness_C18 ==
    /\ Len(elog) = 2
    /\ elog[1].invoked /\ elog[1].result = JList(<<Sym("A")>>)
    /\ elog[2].hit /\ elog[2].result = JList(<<Sym("A")>>)
    /\ Readable(astCache[elog[2].source])

\* C19: extract_ast_from_code creates one temporary file holding the text,
\* calls extract_ast on it, and when the call ends (with a list, with None, or
\* with the exception that left extract_ast) the temporary file is gone.
Thm_C19 ==
    /\ tpc \in {"created", "returned", "raised"} =>
          /\ ttemp = {tpath}
          /\ tpath.text \in Sources
    /\ tpc \in {"idle", "done", "propagated"} => ttemp = {}
    /\ tpc = "returned" =>
          /\ LastCall.source = tpath.text
          /\ tresult = LastCall.result

\* the call was left by the exception, and no temporary file is there
Witness_C19 ==
    /\ tpc = "propagated"
    /\ tpath # None /\ tpath.text = SourceA
    /\ ttemp = {}

\* the call returned the symbol list, and no temporary file is there
Witness_C19_Returned ==
    /\ tpc = "done"
    /\ tresult = JList(<<Sym("A"), Sym("b")>>)
    /\ ttemp = {}

(***************************************************************************)
(* Properties of the rule filter                                           *)
(***************************************************************************)
\* C5: for any extraction result, any rule corpus and any cap k >= 0 (k = 0
\* included), filter_rules_for_file returns at most k rules, and
\* format_rules_for_prompt renders at most 10 rule entries whatever the length
\* of the filtered list.
Claim_C5 ==
    /\ fpc \in {"filtered", "formatted"} => Len(ffiltered) <= fmax
    /\ fpc = "formatted" => RenderedEntries(ftext) <= RenderLimit

\* C6: when the identifier set derived from the extraction result is empty (no
\* name or symbol_name field anywhere in it, or the result is empty or absent),
\* filter_rules_for_file returns the empty list for every corpus, also for
\* rules that the @objc attribute heuristic would match.
Thm_C6 ==
    (fpc \in {"filtered", "formatted"} /\ ExtractIdentifiersFromAst(fast) = {})
        => ffiltered = <<>>

\* a symbol that carries @objc but no name, filtered against a corpus holding
\* the Objective-C rule
Witness_C6 ==
    /\ fpc = "filtered"
    /\ fast = JList(<<JObj(<<ObjcAttributes>>)>>)
    /\ HasObjcAttribute(fast)
    /\ frules = <<ObjcRule>>
    /\ ffiltered = <<>>

\* the rule's description mentions one of the keywords
Mentions(rule, keywords) ==
    \E w \in keywords : IsSubstr(w, Lower(Get(rule, <<"description">>, JStr(<<>>)).s))

\* some file identifier holds one of the words, case-insensitively
SomeIdHolds(ids, words) == \E id \in ids, w \in words : IsSubstr(w, Lower(id.s))

UiKeywords == {<<"ui", "kit">>, <<"ui", "view">>}

DelegateKeywords == {<<"app", "delegate">>, <<"scene", "delegate">>}

ObjcKeywords == {<<"@", "objc">>, <<"objective", "-", "c">>}

CodableKeywords == {<<"codable">>}

\* filter_rules_for_file returned before its cap was reached, for a file with
\* identifiers: the rules returned are the relevant rules
AllRelevantReturned ==
    /\ fpc = "filtered"
    /\ Len(ffiltered) < fmax
    /\ ExtractIdentifiersFromAst(fast) # {}

Returned(rule) == \E j \in 1..Len(ffiltered) : ffiltered[j] = rule

\* C24 as stated: the chain is first-match-wins: a rule with a UI keyword is
\* relevant iff some identifier holds "ui", else a rule with a delegate keyword
\* iff some identifier holds "delegate", else (no @objc keyword) a rule with
\* the serialization keyword iff some identifier holds it; later steps are
\* not consulted.
Claim_C24 ==
    AllRelevantReturned =>
        LET ids == ExtractIdentifiersFromAst(fast) IN
        \A k \in 1..Len(frules) :
            frules[k].t = "obj" =>
                LET rule == frules[k] IN
                /\ Mentions(rule, UiKeywords)
                      => (Returned(rule) <=> SomeIdHolds(ids, {<<"ui">>}))
                /\ (~Mentions(rule, UiKeywords) /\ Mentions(rule, DelegateKeywords))
                      => (Returned(rule) <=> SomeIdHolds(ids, {<<"delegate">>}))
                /\ (~Mentions(rule, UiKeywords) /\ ~Mentions(rule, DelegateKeywords)
                       /\ ~Mentions(rule, ObjcKeywords) /\ Mentions(rule, CodableKeywords))
                      => (Returned(rule) <=> SomeIdHolds(ids, {<<"codable">>}))

\* C24: the relevance decision is a chain of sufficient tests, each tried in
\* turn until one succeeds: a rule is relevant iff its description has a UI
\* keyword and some identifier holds "ui", or it has a delegate keyword and
\* some identifier holds "delegate", or it has an @objc keyword and a symbol
\* carries an @objc attribute, or it has the serialization keyword and some
\* identifier holds it, or a where-clause of its pattern holds an identifier.
\* A keyword whose identifier test fails does not end the chain.
Thm_C24 ==
    AllRelevantReturned =>
        LET ids == ExtractIdentifiersFromAst(fast) IN
        \A k \in 1..Len(frules) :
            frules[k].t = "obj" =>
                LET rule == frules[k] IN
                /\ (Mentions(rule, UiKeywords) /\ SomeIdHolds(ids, {<<"ui">>}))
                      => Returned(rule)
                /\ (Mentions(rule, DelegateKeywords) /\ SomeIdHolds(ids, {<<"delegate">>}))
                      => Returned(rule)
                /\ (Mentions(rule, CodableKeywords) /\ SomeIdHolds(ids, {<<"codable">>}))
                      => Returned(rule)
                /\ Returned(rule) <=>
                      \/ Mentions(rule, UiKeywords) /\ SomeIdHolds(ids, {<<"ui">>})
                      \/ Mentions(rule, DelegateKeywords)
                            /\ SomeIdHolds(ids, {<<"delegate">>})
                      \/ Mentions(rule, ObjcKeywords) /\ HasObjcAttribute(fast)
                      \/ Mentions(rule, CodableKeywords)
                            /\ SomeIdHolds(ids, {<<"codable">>})
                      \/ PatternMatches(rule, ids)

\* a rule with a UI keyword was returned for a file none of whose identifiers
\* holds "ui": its where-clause names the identifier A
Witness_C24 ==
    /\ AllRelevantReturned
    /\ frules = ChainCorpus
    /\ fast = JList(<<Named(<<"A">>), Named(<<"b">>)>>)
    /\ ~SomeIdHolds(ExtractIdentifiersFromAst(fast), {<<"ui">>})
    /\ Returned(ChainCorpus[1])

\* a rule with a UI keyword and the serialization keyword was returned for a
\* file whose only identifier is DecodableModel
Witness_C24_SecondKeyword ==
    /\ AllRelevantReturned
    /\ frules = ChainCorpus
    /\ fast = JList(<<Named(<<"De", "codable", "Model">>)>>)
    /\ ffiltered = <<ChainCorpus[2]>>

\* the relevant rules of the corpus, in corpus order
RECURSIVE RelevantRules(_, _, _)
RelevantRules(rules, ids, ast_data) ==
    IF rules = <<>> THEN <<>>
    ELSE (IF Head(rules).t = "obj" /\ IsRuleRelevant(Head(rules), ids, ast_data)
          THEN <<Head(rules)>> ELSE <<>>)
         \o RelevantRules(Tail(rules), ids, ast_data)

Min(a, b) == IF a <= b THEN a ELSE b

\* C25: for a file with identifiers, filter_rules_for_file returns exactly the
\* first min(k, r) relevant rules of the corpus in corpus order, r being the
\* number of relevant rules, and leaves the corpus as it was.
Claim_C25 ==
    (fpc \in {"filtered", "formatted"} /\ ExtractIdentifiersFromAst(fast) # {}) =>
        LET relevant == RelevantRules(frules, ExtractIdentifiersFromAst(fast), fast) IN
        /\ ffiltered = Take(relevant, Min(fmax, Len(relevant)))
        /\ frules = RuleFilterInit(fyaml).all_rules

\* the part of C25 that holds: for a cap of at least one the result is the
\* first min(k, r) relevant rules; for a cap of zero it is the first relevant
\* rule
FirstRelevant ==
    (fpc \in {"filtered", "formatted"} /\ ExtractIdentifiersFromAst(fast) # {}) =>
        LET relevant == RelevantRules(frules, ExtractIdentifiersFromAst(fast), fast) IN
        /\ fmax >= 1 => ffiltered = Take(relevant, Min(fmax, Len(relevant)))
        /\ fmax = 0 => ffiltered = Take(relevant, Min(1, Len(relevant)))
        /\ frules = RuleFilterInit(fyaml).all_rules

\* the value and every value nested in it, at any depth
RECURSIVE Nodes(_)
Nodes(v) ==
    {v} \cup (CASE v.t = "obj" -> UNION {Nodes(v.o[i][2]) : i \in 1..Len(v.o)}
                [] v.t = "list" -> UNION {Nodes(v.l[i]) : i \in 1..Len(v.l)}
                [] OTHER -> {})

\* the values found under `field` in the objects of the extraction result
Under(ast_data, field) ==
    IF ast_data = None THEN {}
    ELSE {Lookup(n.o, field) : n \in {m \in Nodes(ast_data) : m.t = "obj" /\ HasKey(m.o, field)}}

Strings(values) == {v \in values : v.t = "str"}

Witness_C26_CamelCase ==
    /\ fpc = "filtered"
    /\ Under(fast, <<"symbolName">>) = {JStr(<<"UI", "View">>)}
    /\ fids = {}

\* the rule file gives no top-level rules sequence: it is missing, cannot be
\* parsed or read, holds an empty document, or a document without a rules list
NoRulesSequence(path) ==
    \/ path.kind # "document"
    \/ path.value = None
    \/ /\ path.value # None
       /\ \/ path.value.t # "obj"
          \/ /\ path.value.t = "obj"
             /\ ~HasKey(path.value.o, <<"rules">>)

\* C22: constructing the rule filter never fails: for a missing rule file, an
\* unparseable file, an empty document, or a document without a top-level
\* rules sequence, construction completes with the empty corpus, and every
\* later filter_rules_for_file call returns the empty list without raising.
Claim_C22 ==
    /\ fpc # "raised"
    /\ (fpc \in {"start", "filtered", "formatted"} /\ NoRulesSequence(fyaml))
          => frules = <<>>
    /\ (fpc \in {"filtered", "formatted"} /\ NoRulesSequence(fyaml)) => ffiltered = <<>>

\* the part of C22 that holds: a missing file, a file that cannot be parsed or
\* read, and a mapping without a rules entry give the empty corpus
LoadDegrades ==
    (fyaml.kind # "document"
        \/ (fyaml.value # None /\ fyaml.value.t = "obj"
                /\ ~HasKey(fyaml.value.o, <<"rules">>))) =>
        /\ fpc # "raised"
        /\ fpc \in {"start", "filtered", "formatted"} => frules = <<>>
        /\ fpc \in {"filtered", "formatted"} => ffiltered = <<>>

(***************************************************************************)
(* Properties of the per-file pipeline and the batch run                   *)
(***************************************************************************)
\* the records of file i in the output
Records(i) == Cardinality({k \in 1..Len(poutput) : poutput[k].file = i})

EmptySource(i) == pfiles[i].readable /\ Strip(pfiles[i].content) = <<>>

\* the analyzer call of file i timed out
TimedOut(i) == pframe[i].analyzer = "timeout"

\* file i went through every stage with a symbol list
Normal(i) ==
    /\ pfiles[i].readable /\ Strip(pfiles[i].content) # <<>>
    /\ AstPresent(pframe[i].ast_data)

\* one empty file, then a file whose analyzer call timed out, then a normal file
ResilienceBatch ==
    /\ Len(pfiles) = 3
    /\ EmptySource(1) /\ TimedOut(2) /\ Normal(3)

\* C9: in a batch run a file whose source is empty and a file whose analyzer
\* call times out each contribute no output record, and a file processed
\* normally contributes exactly one; so a batch of one empty file, one
\* analyzer-timeout file and one normal file produces exactly one record.
Claim_C9 ==
    porch = "done" =>
        /\ \A i \in Files :
             /\ EmptySource(i) => Records(i) = 0
             /\ TimedOut(i) => Records(i) = 0
             /\ Normal(i) => Records(i) = 1
        /\ ResilienceBatch => Len(poutput) = 1

\* C9 (amended): in a batch run a file whose source is empty contributes no
\* output record; a file whose analyzer call times out is processed with the
\* degraded prompt and contributes exactly one record, as a file processed
\* normally does; so a batch of one empty file, one analyzer-timeout file and
\* one normal file produces exactly two records.
Thm_C9 ==
    porch = "done" =>
        /\ \A i \in Files :
             /\ EmptySource(i) => Records(i) = 0
             /\ TimedOut(i) =>
                  /\ Records(i) = 1
                  /\ pframe[i].sent = <<BuildSimplePrompt(pfiles[i].content)>>
             /\ Normal(i) => Records(i) = 1
        /\ ResilienceBatch => Len(poutput) = 2

\* the batch of C9 run to its end in pool mode: records of files 2 and 3 only
Witness_C9 ==
    /\ porch = "done" /\ pparallel
    /\ ResilienceBatch
    /\ Records(1) = 0 /\ Records(2) = 1 /\ Records(3) = 1
    /\ Len(poutput) = 2

\* the extraction of file i has ended without a symbol list
AbsentExtraction(i) ==
    /\ pstage[i] \in {"extracted", "filtered", "assembled", "responded", "returned",
                      "collected"}
    /\ pframe[i].swift_code # <<>>
    /\ ~AstPresent(pframe[i].ast_data)

\* C10: when extraction for a non-empty source file is absent (analyzer
\* missing, non-zero exit, timeout, marker or unparseable output) the file's
\* pipeline goes on: the rule filter is not run, the rule set is empty, the
\* degraded prompt is the one sent to the model, and the file is recorded with
\* an output record.
Thm_C10 ==
    \A i \in Files :
        AbsentExtraction(i) =>
            LET f == pframe[i] IN
            /\ pstage[i] # "extracted" =>
                 /\ ~f.ran
                 /\ f.filtered_rules = <<>>
                 /\ f.rules_text = NoRulesAvailable
            /\ pstage[i] \in {"assembled", "responded", "returned", "collected"} =>
                 f.full_prompt = BuildSimplePrompt(f.swift_code)
            /\ f.sent # <<>> => f.sent = <<BuildSimplePrompt(f.swift_code)>>
            /\ pstage[i] \in {"returned", "collected"} =>
                 /\ f.entry # None
                 /\ f.entry.input = InputText(f.swift_code, None, NoRulesAvailable)
            /\ pstage[i] = "collected" => Records(i) = 1
            /\ porch = "done" => Records(i) = 1

\* a file whose analyzer printed no JSON, recorded after the degraded prompt
\* was sent, in a run where the analyzer exists
Witness_C10 ==
    \E i \in Files :
        /\ AbsentExtraction(i)
        /\ analyzerExists /\ pframe[i].analyzer = "exit0"
        /\ pstage[i] = "collected"
        /\ ~pframe[i].ran
        /\ pframe[i].sent = <<BuildSimplePrompt(SourceA)>>
        /\ Records(i) = 1

\* file i cannot be read
Unreadable(i) == ~pfiles[i].readable

Witness_C11_Pool ==
    /\ porch = "done" /\ pparallel
    /\ Len(pfiles) = 3 /\ Unreadable(2)
    /\ Records(2) = 0 /\ Records(3) = 1

\* file i has returned an entry built with a symbol list
EntryWithAst(i) ==
    /\ pstage[i] \in {"returned", "collected"}
    /\ pframe[i].entry # None
    /\ AstPresent(pframe[i].ast_data)

\* C20: for every file processed with a present extraction result, the
\* instruction field of the dataset entry is the leading text of the full
\* prompt sent to the model for that file, and the instruction text is the
\* same in the training generator and the inference generator.
Claim_C20 ==
    \A i \in Files :
        EntryWithAst(i) =>
            /\ pframe[i].sent # <<>>
            /\ StartsWith(pframe[i].sent[1], pframe[i].entry.instruction)
            /\ pframe[i].entry.instruction = INSTRUCTION

\* C20 (amended): for every file processed with a present extraction result,
\* the instruction field of the dataset entry is the fixed instruction text,
\* the same in the training generator and the inference generator; the prompt
\* sent to the model is the text of build_prompt, of which the instruction is
\* not the leading text: the two differ in their first sentence.
Thm_C20 ==
    \A i \in Files :
        EntryWithAst(i) =>
            LET f == pframe[i] IN
            /\ f.entry.instruction = Instruction
            /\ f.entry.instruction = INSTRUCTION
            /\ f.sent = <<BuildPrompt(f.swift_code, f.ast_data, f.rules_text)>>
            /\ ~StartsWith(f.sent[1], f.entry.instruction)
            /\ f.sent[1][1] # f.entry.instruction[1]

\* a recorded file whose prompt was built from source, symbol list and rules
Witness_C20 ==
    \E i \in Files :
        /\ EntryWithAst(i)
        /\ pstage[i] = "collected"
        /\ pframe[i].ran
        /\ pframe[i].sent = <<BuildPrompt(SourceA, JList(<<Sym("A"), Sym("b")>>),
                                          pframe[i].rules_text)>>
        /\ pframe[i].entry.instruction = INSTRUCTION

\* the text has no AST section header and no rule section header
NoSectionHeaders(prompt) ==
    /\ ~Contains(prompt, AstHeader)
    /\ ~Contains(prompt, RulesHeader)
    /\ ~Contains(prompt, "### Example Exclusion Rules (REFERENCE ONLY):")

\* the training half of C21: for a file without usable extraction result the
\* prompt sent and the input text recorded hold the source text and no AST or
\* rule section header
DegradedTraining ==
    \A i \in Files :
        (pstage[i] \in {"assembled", "responded", "returned", "collected"}
             /\ ~AstPresent(pframe[i].ast_data)) =>
            /\ IsSubstr(pframe[i].swift_code, pframe[i].full_prompt)
            /\ IsSubstr(pframe[i].swift_code, pframe[i].input_text)
            /\ NoSectionHeaders(pframe[i].full_prompt)
            /\ NoSectionHeaders(pframe[i].input_text)
            /\ pframe[i].sent # <<>> => \A k \in 1..Len(pframe[i].sent) :
                                           pframe[i].sent[k] = pframe[i].full_prompt

\* C21: when a file has no usable extraction result, the input text the
\* inference generator records for it holds the raw source text and holds no
\* AST section header and no rule section header.
Claim_C21 ==
    (ipc = "returned" /\ iframe.entry # None /\ ~AstPresent(iframe.ast_data)) =>
        /\ IsSubstr(iframe.swift_code, iframe.entry.input)
        /\ NoSectionHeaders(iframe.entry.input)

(***************************************************************************)
(* Properties of generate_dataset: resumed runs, the writer, the pool      *)
(***************************************************************************)
\* the records of file i in the output file
BRecords(i) == Cardinality({k \in 1..Len(bout) : bout[k] = Rec(i)})

\* C12: after any sequence of runs over the same sorted file list (complete,
\* terminated and resumed runs, with files that fail), the output holds at most
\* one record per source file, and a resumed run passes over no file that has
\* no record in the output (a file that can never give an entry left aside).
Claim_C12 ==
    /\ \A i \in BFiles : BRecords(i) <= 1
    /\ \A i \in BFiles : (bfut[i] = "skipped" /\ i \notin bcall.failing) => BRecords(i) >= 1

\* the output text is a sequence of lines, each one record and its newline
CompleteLines(content) ==
    /\ Len(content) % 2 = 0
    /\ \A k \in 1..Len(content) :
         content[k].t = IF k % 2 = 1 THEN "rec" ELSE "nl"

\* C13: in pool mode the appends to the output file are serialized: at no
\* reachable state are two records written and not yet flushed, every record is
\* in the file as one complete line of its own, the line being flushed is the
\* last one of the file, and every write is followed by its flush before the
\* next write (the lines of the file are the flushed ones plus at most the one
\* being written), for any order in which the workers finish.
Thm_C13 ==
    (PoolMode /\ bpc \in {"submit", "collect", "done"}) =>
        /\ Cardinality(bwriting) <= 1
        /\ CompleteLines(bout)
        /\ \A i \in bwriting :
             /\ bfut[i] = "written"
             /\ Len(bout) >= 2
             /\ bout[Len(bout) - 1] = Rec(i)
        /\ NonBlankLines(bout) = bsuccess + Cardinality(bwriting)
        /\ \A i \in BFiles : bfut[i] = "collected" /\ i \notin bcall.failing
                                 => BRecords(i) >= 1

\* two workers have finished with an entry while a third file is still being
\* processed: one record is being written, the other waits for the writer
Witness_C13 ==
    /\ PoolMode /\ bpc = "collect"
    /\ \E i, j, k \in BFiles :
         /\ bwriting = {i}
         /\ bfut[j] = "entry"
         /\ bfut[k] = "running"

\* C14: in pool mode at most MAX_WORKERS (5) process_single_file calls execute
\* at the same time, however many files have been submitted; with one file or
\* with use_parallel off, at most one executes at a time.
Thm_C14 ==
    /\ Cardinality(BRunning) <= MAX_WORKERS
    /\ MAX_WORKERS = 5
    /\ ~PoolMode => Cardinality(BRunning) <= 1

\* six files submitted: five execute, the sixth waits for a worker
Witness_C14 ==
    /\ PoolMode
    /\ Cardinality(BRunning) = MAX_WORKERS
    /\ \E i \in BFiles : bfut[i] = "submitted"
    /\ Cardinality({i \in BFiles : bfut[i] \in {"submitted", "running"}}) > MAX_WORKERS

\* the files for which this run wrote a record
RunRecords == {i \in BFiles : bfut[i] = "collected" /\ i \notin bcall.failing}

\* C23 as stated: a run reports a non-zero exit status exactly when no source
\* file is found or the run itself produced no record, also when records of
\* earlier runs exist.
Claim_C23 ==
    bpc = "done" => (bexit # <<0>> <=> (bcall.n = 0 \/ RunRecords = {}))

\* C23: a run that ends by returning reports a non-zero exit status exactly
\* when no source file is found or when the records counted in the output
\* file at its start plus the records it wrote are zero; a resumed run that
\* writes no record reports zero when records of earlier runs exist.
Thm_C23 ==
    bpc = "done" =>
        /\ bexit \in {<<0>>, <<1>>}
        /\ bexit # <<0>> <=> (bcall.n = 0 \/ bskip + Cardinality(RunRecords) = 0)
        /\ bcall.n > 0 => (bexit # <<0>> <=> NonBlankLines(bout) = 0)
        /\ (bskip > 0 /\ bcall.n > 0) => bexit = <<0>>

\* the second run skipped every file, wrote nothing, and reported zero
Witness_C23 ==
    /\ bpc = "done" /\ bruns = 2
    /\ bskip = bcall.n /\ bcall.n > 0
    /\ RunRecords = {}
    /\ bexit = <<0>>

\* every file failed: non-zero
Witness_C23_NoRecord ==
    /\ bpc = "done" /\ bcall.n = 2 /\ bcall.failing = {1, 2}
    /\ bout = <<>> /\ bexit = <<1>>

\* no source file: non-zero
Witness_C23_NoFile ==
    /\ bpc = "done" /\ bcall.n = 0 /\ bexit = <<1>>

(***************************************************************************)
(* Properties of the retry loop                                            *)
(***************************************************************************)
Pow2(n) == 2 ^ n

IsModelResponse(v) ==
    /\ v # None
    /\ v.t = "obj"
    /\ HasKey(v.o, <<"identifiers">>)
    /\ Lookup(v.o, <<"identifiers">>).t = "list"

\* C4: for every max_retries >= 0, generate_with_retry returns a ModelResponse,
\* never None.
Claim_C4 == rpc = "done" => IsModelResponse(rresult)

(***************************************************************************)
(* Properties of the reply parser                                          *)
(***************************************************************************)
NoTier(t) == Tier1(t) = None /\ Tier2(t) = None /\ Tier3(t) = None

\* C7: tier 2 runs only when tier 1 produced nothing, tier 3 only when tier 2
\* produced nothing, and the result is that of the first tier that produces
\* one; the fenced object yields [a, b] by tier 1, 'here you go: ["x", "y"]'
\* yields [x, y] by tier 2, and quoted words yield those words by tier 3.
Thm_C7 ==
    /\ 2 \in consulted => (1 \in consulted /\ Tier1(text) = None)
    /\ 3 \in consulted => (2 \in consulted /\ Tier2(text) = None)
    /\ ppc = "done" =>
         /\ Tier1(text) # None => (presult = Tier1(text) /\ ptier = 1 /\ consulted = {1})
         /\ (Tier1(text) = None /\ Tier2(text) # None)
                => (presult = Tier2(text) /\ ptier = 2 /\ consulted = {1, 2})
         /\ (Tier1(text) = None /\ Tier2(text) = None /\ Tier3(text) # None)
                => (presult = Tier3(text) /\ ptier = 3 /\ consulted = {1, 2, 3})
         /\ text = FencedAB => (presult = Resp(<< <<"a">>, <<"b">> >>) /\ ptier = 1)
         /\ text = HereXY => (presult = Resp(<< <<"x">>, <<"y">> >>) /\ ptier = 2)
         /\ text = <<Q, "foo", Q, " ", Q, "bar", Q>>
                => (presult = Resp(<< <<"foo">>, <<"bar">> >>) /\ ptier = 3)
         /\ text = QuotedWords => (presult = Resp(<< <<"foo">>, <<"bar">> >>) /\ ptier = 3)

\* the array reply, answered by tier 2 after tier 1 found no object
Witness_C7 ==
    /\ ppc = "done" /\ text = HereXY
    /\ consulted = {1, 2} /\ ptier = 2
    /\ presult = Resp(<< <<"x">>, <<"y">> >>)

Structural == {"{", "}", "[", "]", Q}

\* C8: for every reply text _parse_response returns a response and never
\* raises; when no tier yields anything (as for text without braces, brackets
\* or quotes) the result is exactly {"identifiers": []}.
Thm_C8 ==
    /\ ppc \in {"tier1", "tier2", "tier3", "done"}
    /\ ppc = "done" =>
         /\ presult # None
         /\ presult.kind = "resp"
         /\ NoTier(text) => presult = Resp(<<>>)
         /\ (\A i \in 1..Len(text) : text[i] \notin Structural) => presult = Resp(<<>>)

\* 'no structured content at all': all three tiers ran, the result is empty
Witness_C8 ==
    /\ ppc = "done" /\ text = NoStructure
    /\ consulted = {1, 2, 3}
    /\ presult = Resp(<<>>)

\* every identifier of the response is a string without leading or trailing
\* whitespace
Trimmed(r) == \A i \in 1..Len(r.identifiers) : Strip(r.identifiers[i]) = r.identifiers[i]

\* C27 as stated: whenever tier 1 produces the result, every returned
\* identifier is a non-empty string without leading or trailing whitespace.
Claim_C27 ==
    (ppc = "done" /\ ptier = 1) =>
        /\ Trimmed(presult)
        /\ \A i \in 1..Len(presult.identifiers) : presult.identifiers[i] # <<>>

\* what tier 1 does guarantee: the identifiers are trimmed, and an empty one
\* stands for a whitespace-only element of the reply's array
Tier1Trimmed ==
    (ppc = "done" /\ ptier = 1) =>
        /\ Trimmed(presult)
        /\ (\E i \in 1..Len(presult.identifiers) : presult.identifiers[i] = <<>>)
              => \E i \in 1..Len(text) : text[i] = Q /\ i + 2 <= Len(text)
                                        /\ text[i + 1] \in Whitespace /\ text[i + 2] = Q

\* the entries tier 3 is said to leave out
Stoplisted(id) ==
    \/ id \in {<<"identifiers">>, <<"reasoning">>, <<"error">>, <<"exclusions">>, <<"evidence">>}
    \/ (id # <<>> /\ Head(id) = "is_")
    \/ (Len(id) >= 2 /\ id[1] = "This" /\ id[2] = " ")

NotStoplisted(id) == ~Stoplisted(id)

\* id stands in the reply between two double quotes
QuotedIn(reply, id) ==
    \E a \in 1..Len(reply) :
        /\ a + Len(id) + 1 <= Len(reply)
        /\ reply[a] = Q /\ reply[a + Len(id) + 1] = Q
        /\ Slice(reply, a + 1, a + Len(id)) = id

\* C28: whenever tier 3 produces the result, the returned sequence is the
\* double-quoted substrings of the reply in order of appearance, minus the
\* stoplisted entries and those starting with 'is_' or 'This ', truncated to
\* the first 100; it has at most 100 elements and no stoplisted entry.
Thm_C28 ==
    (ppc = "done" /\ ptier = 3) =>
        LET kept == SelectSeq(FindQuoted(text, 1), NotStoplisted) IN
        /\ presult.identifiers = Take(kept, Min(100, Len(kept)))
        /\ Len(presult.identifiers) <= 100
        /\ \A i \in 1..Len(presult.identifiers) :
              /\ ~Stoplisted(presult.identifiers[i])
              /\ QuotedIn(text, presult.identifiers[i])
              /\ ~Contains(presult.identifiers[i], Q)
        /\ text = ManyQuoted => presult.identifiers = [i \in 1..100 |-> <<"w">>]
        /\ text = QuotedWords => presult.identifiers = << <<"foo">>, <<"bar">> >>

\* the reply with 102 quoted words: the stoplisted first one is left out, the
\* next 100 are returned and the last one is cut off
Witness_C28 ==
    /\ ppc = "done" /\ ptier = 3 /\ text = ManyQuoted
    /\ Len(FindQuoted(text, 1)) = 102
    /\ Len(presult.identifiers) = 100
    /\ \A i \in 1..100 : presult.identifiers[i] = <<"w">>

(***************************************************************************)
(* Properties of the response cache                                        *)
(***************************************************************************)
\* the step in which generate_with_retry gives up: its last call raised
ExhaustStep == rpc = "try" /\ hpc = "raised" /\ rpc' = "done"

\* C29 as stated: the cache changes only by the write of the returned value
\* under the call's own prompt, an error leaves it unchanged, and after the
\* retries are used up it holds no entry for the prompt.
Claim_C29 ==
    [][/\ respCache' # respCache =>
            /\ hpc = "api" /\ hpc' = "returned"
            /\ respCache' = Put(respCache, hprompt, File(JsonDumps(hresult')))
       /\ hpc' = "raised" => respCache' = respCache
       /\ ExhaustStep => respCache'[hprompt] = Missing]_vars

\* C29: a generate call changes the response cache only at its own prompt's
\* entry, by the best-effort write (complete or cut short) of the value it
\* returns from a completed network call; a call that ends in an API error
\* raises and leaves the cache unchanged, so when generate_with_retry has used
\* up its retries the cache holds no readable entry for the prompt, and a call
\* that finds no readable entry contacts the endpoint.
Thm_C29 ==
    [][/\ respCache' # respCache =>
            /\ hpc = "api" /\ hpc' = "returned" /\ huse
            /\ respCache' \in {Put(respCache, hprompt, File(JsonDumps(hresult'))),
                               Put(respCache, hprompt, Truncated(JsonDumps(hresult')))}
       /\ hpc' = "raised" => (respCache' = respCache /\ hresult' = None)
       /\ ExhaustStep =>
            /\ respCache' = respCache
            /\ ~Readable(respCache'[hprompt])
            /\ rresult' = EmptyResponse
       /\ (hpc = "check" /\ ~Readable(respCache[hprompt])) => hpc' = "api"
       /\ hpc = "api" => hnet' = hnet + 1]_vars

\* three calls raised: the empty response is returned and nothing is cached
Witness_C29 ==
    /\ rpc = "done" /\ rmax = 3
    /\ rlog = <<"fail", "fail", "fail">>
    /\ rresult = EmptyResponse
    /\ respCache = [p \in Prompts |-> Missing]

\* the retries are used up while the cache holds a file cut short by an
\* earlier write
Witness_C29_CutShort ==
    /\ rpc = "done" /\ rlog = <<"fail">> /\ rresult = EmptyResponse
    /\ \A p \in Prompts : respCache[p].kind = "file" /\ ~Readable(respCache[p])

\* the cache file holding the empty identifier list
EmptyFile == File(JsonDumps(EmptyResponse))

\* a network call is completed on a reply that no tier can parse
UnparsedReplyStep == hpc = "api" /\ hpc' = "returned" /\ NoTier(Strip(hreply'))

\* C30 as stated: after a reply on which all three tiers fail the empty list is
\* in the cache under the call's prompt, and every generate call that finds it
\* there returns it without contacting the endpoint.
Claim_C30 ==
    [][/\ UnparsedReplyStep => respCache'[hprompt] = EmptyFile
       /\ (hpc = "check" /\ respCache[hprompt] = EmptyFile) =>
             (hpc' = "returned" /\ hresult' = EmptyResponse /\ hnet' = 0)]_vars

\* C30: with caching on, a reply on which all three parsing tiers fail is
\* treated like any other completed call: the call returns the empty list and
\* writes it (best-effort) to the cache under the prompt's hash; once the file
\* is there it stays, and every later generate call with caching on for that
\* prompt returns the empty list from the cache without contacting the
\* endpoint.
Thm_C30 ==
    [][/\ UnparsedReplyStep =>
            /\ hresult' = EmptyResponse
            /\ hwrite' = "written" => respCache'[hprompt] = EmptyFile
            /\ hwrite' = "partial" => respCache'[hprompt] = Truncated(EmptyFile.content)
            /\ hwrite' \in {"failed", "none"} => respCache' = respCache
            /\ huse <=> hwrite' # "none"
       /\ \A p \in Prompts : respCache[p] = EmptyFile => respCache'[p] = EmptyFile
       /\ (hpc = "check" /\ huse /\ respCache[hprompt] = EmptyFile) =>
             (hpc' = "returned" /\ hresult' = EmptyResponse /\ hnet' = 0)]_vars

\* the reply without structure was parsed to the empty list, which is now in
\* the cache
Witness_C30 ==
    /\ hpc = "returned" /\ huse /\ hnet = 1 /\ hwrite = "written"
    /\ hreply = NoStructure
    /\ hresult = EmptyResponse
    /\ respCache[hprompt] = EmptyFile

\* a later call answered from that file, without a network call
Witness_C30_Hit ==
    /\ hpc = "returned" /\ huse /\ hnet = 0
    /\ hentry = EmptyFile
    /\ hresult = EmptyResponse

\* a call with caching off contacts the endpoint although the file is there
Witness_C30_CachingOff ==
    /\ hpc = "returned" /\ ~huse /\ hnet = 1
    /\ hentry = EmptyFile
    /\ hresult # EmptyResponse

(***************************************************************************)
(* Properties of the order of the records                                  *)
(***************************************************************************)
\* the files of the records this run has appended, in the order of the file
WrittenInRun == [k \in 1..((Len(bout) - bstart) \div 2) |-> bout[bstart + 2 * k - 1].file]

\* sequential mode: the records of a run are in file-list order
InFileOrder ==
    (~PoolMode /\ bpc \in {"seq", "done", "killed"}) =>
        \A a, b \in 1..Len(WrittenInRun) : a < b => WrittenInRun[a] < WrittenInRun[b]

\* the pool-mode step that writes the record of file i
WritesRecord(i) == bpc = "collect" /\ bfut[i] = "entry" /\ bfut'[i] = "written"

\* the pool-mode step that takes the result of file i
TakesResult(i) == bpc = "collect" /\ i \in NotHandedOver /\ bfut'[i] \in {"written", "collected"}

\* C31 as stated: in pool mode every record is written in the order in which
\* the files' pipelines completed; in sequential mode in file-list order.
Claim_C31 ==
    /\ []InFileOrder
    /\ [][\A i \in BFiles :
            WritesRecord(i) =>
                \A j \in NotHandedOver : bfut[j] = "entry" => DoneAt(i) <= DoneAt(j)]_vars

\* C31: in pool mode the results are taken after the last submission: first
\* those of the pipelines that had completed by then, in no particular order,
\* then the others in the order in which their pipelines completed (not the
\* order of submission); in sequential mode the records of a run are in
\* file-list order.
Thm_C31 ==
    /\ []InFileOrder
    /\ [](PoolMode /\ bpc = "submit" => WrittenInRun = <<>>)
    /\ [][\A i \in BFiles :
            TakesResult(i) =>
                \/ i \in bfirst
                \/ /\ bfirst \cap NotHandedOver = {}
                   /\ \A j \in NotHandedOver : DoneAt(i) <= DoneAt(j)]_vars

\* no pipeline had completed when the submitting ended; file 3 completed first
\* and its record is the first of the run, while file 1 is still processed
Witness_C31 ==
    /\ PoolMode /\ bpc = "collect" /\ bfirst = {}
    /\ WrittenInRun = <<3>>
    /\ bfut[1] = "running"

\* files 1 and 2 had completed before the submitting ended, file 1 first; the
\* record of file 2 is written while file 1 waits
Witness_C31_Before ==
    /\ PoolMode /\ bpc = "collect" /\ {1, 2} \subseteq bfirst
    /\ bdone # <<>> /\ Head(bdone) = 1 /\ bfut[1] = "entry"
    /\ WrittenInRun = <<2>>

\* the non-blank records the output file held when the current run started
ExistingCount == NonBlankLines(SubSeq(bout, 1, bstart))

\* min(n, total): the positions a run passes over
SkippedUpTo == IF ExistingCount < bcall.n THEN ExistingCount ELSE bcall.n

\* a run of generate_dataset is under way or has returned
InRun == bpc \in {"submit", "collect", "seq", "done"} /\ bruns > 0

\* the files at positions 1..min(n, total) are never handed to
\* process_single_file, no later file is passed over, and at the end of the run
\* the former are all passed over and the latter all processed
ResumeByPosition ==
    InRun =>
        /\ \A i \in BFiles :
              /\ i <= SkippedUpTo => bfut[i] \in {"idle", "skipped"}
              /\ i > SkippedUpTo => bfut[i] # "skipped"
        /\ bpc = "done" =>
              \A i \in BFiles :
                 bfut[i] = IF i <= SkippedUpTo THEN "skipped" ELSE "collected"

\* what the file held at the start of the run stays as the beginning of the file
KeepsExisting ==
    \/ bout' = bout
    \/ /\ bstart' = bstart
       /\ bstart <= Len(bout) /\ bstart <= Len(bout')
       /\ SubSeq(bout', 1, bstart) = SubSeq(bout, 1, bstart)

\* C32: a run that starts with n non-blank records in the output file passes
\* over exactly the files at positions 1..min(n, total) without processing them,
\* processes every file at a later position, and appends its records after the
\* existing ones, which it leaves as they are
Thm_C32 ==
    /\ []ResumeByPosition
    /\ [][KeepsExisting]_vars

\* a resumed run in which some files are passed over and a later one has been
\* processed and recorded after the existing records
Witness_C32 ==
    /\ bpc = "done" /\ bruns > 1
    /\ 0 < ExistingCount /\ ExistingCount < bcall.n
    /\ Len(bout) > bstart
    /\ \E i \in BFiles : bfut[i] = "skipped"
    /\ \E i \in BFiles : bfut[i] = "collected"

\* a resumed run whose file list is shorter than the number of existing records:
\* every file is passed over
Witness_C32_MoreRecordsThanFiles ==
    /\ bpc = "done" /\ bruns > 1
    /\ ExistingCount > bcall.n
    /\ BFiles # {}
    /\ \A i \in BFiles : bfut[i] = "skipped"

\* file i has a record among the lines the current run added to the text
RecordedIn(content, i) == \E k \in (bstart + 1)..Len(content) : content[k] = Rec(i)

\* the result of file i is ready and the thread of generate_dataset has nothing
\* to do before it takes a result: it is in the collecting loop with a future
\* to hand over, or in the sequential loop at file i
NextTakesResult(i) ==
    \/ bpc = "collect" /\ \E j \in BFiles : HandsOver(j)
    \/ bpc = "seq" /\ bi = i

\* the record of a file that returned an entry waits for nothing but the writer
WritesWithoutWaiting == \A i \in BFiles : bfut[i] = "entry" => NextTakesResult(i)

\* the pool is being filled: lines 226-241
Submitting == PoolMode /\ bpc = "submit"

\* the process is terminated
Interrupted == bpc # "killed" /\ bpc' = "killed"

\* the files process_single_file has returned an entry for
Completed == {i \in BFiles : i \notin bcall.failing /\ bfut[i] \in {"entry", "written", "collected"}}

\* the file whose result the thread of generate_dataset is handling
InHand == {i \in BFiles : bfut[i] = "written" \/ (bpc = "seq" /\ bi = i)}

\* C33 as stated: in both modes the record of a completed file is written
\* without waiting for files not yet submitted or started, and an interruption
\* loses no completed file but the one in hand
Claim_C33 ==
    /\ []WritesWithoutWaiting
    /\ [][Interrupted => \A i \in Completed \ InHand : RecordedIn(bout', i)]_vars

\* C33: output is persisted incrementally: in the sequential mode and, in the
\* pool mode, once the last file is submitted, the record of a completed file
\* waits for nothing but the writer; while the pool is being filled no record
\* is written, whatever has completed; an interruption keeps every record
\* that was flushed, and loses the completed files not yet taken
Thm_C33 ==
    /\ [](~Submitting => WritesWithoutWaiting)
    /\ [](Submitting => \A i \in BFiles : bfut[i] \notin {"written", "collected"})
    /\ [][Interrupted =>
             \A i \in Completed : bfut[i] = "collected" => RecordedIn(bout', i)]_vars

\* the pool mode after the last submission: a record is flushed while another
\* file has not been started and one is running
Witness_C33 ==
    /\ PoolMode /\ bpc = "collect"
    /\ \E i \in BFiles : bfut[i] = "collected" /\ RecordedIn(bout, i)
    /\ \E i \in BFiles : bfut[i] = "submitted"
    /\ \E i \in BFiles : bfut[i] = "running"

\* the sequential mode: a record is flushed while a later file is not started
Witness_C33_Sequential ==
    /\ bpc = "seq"
    /\ \E i \in BFiles : bfut[i] = "collected" /\ RecordedIn(bout, i)
    /\ \E i \in BFiles : bfut[i] = "idle"

\* the pool is being filled and a file that has completed waits
Witness_C33_WaitsForSubmission ==
    /\ Submitting /\ bi <= bcall.n
    /\ \E i \in BFiles : bfut[i] = "entry"

\* a terminated run that left records behind
Witness_C33_Interrupted == bpc = "killed" /\ Len(bout) > bstart

\* the stages of process_single_file and of the loop around it, in order
StageOrder ==
    <<"queued", "submitted", "started", "loaded", "extracted", "filtered", "assembled",
      "responded", "returned", "collected">>

StageRank(stage) == CHOOSE k \in 1..Len(StageOrder) : StageOrder[k] = stage

\* file i has a line in the output
HasRecord(i) == Records(i) > 0

\* generate_with_retry was entered for file i
ModelCalled(i) == pframe[i].sent # <<>> \/ pframe[i].attempt > 0

\* a step takes a file one stage on; the sequential loop starts a file without
\* submitting it, and the load may end the call: the early return of an empty
\* file and the except clause
StagesForward ==
    \A i \in Files :
       \/ pstage'[i] = pstage[i]
       \/ StageRank(pstage'[i]) = StageRank(pstage[i]) + 1
       \/ pstage[i] = "queued" /\ pstage'[i] = "started"
       \/ pstage[i] = "started" /\ pstage'[i] = "returned"

\* the model is called for a file only once its extraction is over, and a line
\* is written only for a file whose model call and process_single_file returned
StagesKept ==
    \A i \in Files :
       /\ ModelCalled(i) => StageRank(pstage[i]) >= StageRank("assembled")
       /\ pstage[i] \in {"loaded", "extracted", "filtered", "assembled"} =>
             pframe[i].result = None
       /\ pstage[i] \in {"queued", "submitted", "started", "loaded"} =>
             pframe[i].analyzer = "none" /\ pframe[i].ast_data = None
       /\ HasRecord(i) =>
             /\ pstage[i] = "collected"
             /\ ModelCalled(i)
             /\ pframe[i].result # None

\* a file with empty source is taken from the load to the return with nothing
\* done for it
EmptyLeavesEarly ==
    \A i \in Files :
       EmptySource(i) =>
          /\ pstage[i] \in {"queued", "submitted", "started", "returned", "collected"}
          /\ pframe[i] = NoFrame
          /\ ~HasRecord(i)

\* a step that calls the model (the response cache or the attempt count of a
\* file changes) is a step of a file that is assembled
CallsWhenAssembled ==
    \A i \in Files :
       (pframe'[i].sent # pframe[i].sent \/ pframe'[i].attempt # pframe[i].attempt
        \/ pframe'[i].result # pframe[i].result)
       => pstage[i] = "assembled"

\* C34: a file goes through load, extraction, filtering, assembly, model call
\* and record in this order and never back; the model is not called before the
\* extraction is over, no record is written before the model call returned, and
\* a file with empty source leaves after the load without extraction, model call
\* or record
Thm_C34 ==
    /\ [](StagesKept /\ EmptyLeavesEarly)
    /\ [][StagesForward /\ CallsWhenAssembled]_vars

\* a file went through every stage, the analyzer ran for it, and its record is
\* written
Witness_C34 ==
    \E i \in Files :
       /\ pstage[i] = "collected" /\ HasRecord(i)
       /\ pframe[i].analyzer # "none"
       /\ ModelCalled(i)

\* an empty file has left and a later file is recorded
Witness_C34_Empty ==
    \E i, j \in Files :
       /\ EmptySource(i) /\ pstage[i] = "collected"
       /\ HasRecord(j)

\* the values of the documents the workers have to write or have written
WrittenValues == {Cached(File(cw[w].doc)) : w \in {v \in RaceWorkers : cw[v].doc # <<>>}}

\* every worker that has a document has the same one
SameDocuments ==
    \A v, w \in RaceWorkers : cw[v].doc # <<>> /\ cw[w].doc # <<>> => cw[v].doc = cw[w].doc

\* no cache check ends in an error, and none returns a value on a miss
NoReadError ==
    \A w \in RaceWorkers : cw[w].pc # "raised" /\ (cw[w].pc # "hit" => cw[w].got = None)

\* a cache check that answers gives the whole value of some writer
ReadsWhole == \A w \in RaceWorkers : cw[w].pc = "hit" => cw[w].got \in WrittenValues

\* every call is over and some worker wrote
AllWritten ==
    /\ \A w \in RaceWorkers : cw[w].pc \in {"hit", "failed", "written"}
    /\ \E w \in RaceWorkers : cw[w].pc = "written"

\* the entry left behind is the document of every writer
FinalIsTheDocument ==
    AllWritten => \A w \in RaceWorkers : cw[w].pc = "written" => cfile = File(cw[w].doc)

Witness_C35_Miss ==
    /\ cfile.kind = "file" /\ ~Readable(cfile)
    /\ \E w \in RaceWorkers : cw[w].pc = "miss" /\ cw[w].doc = <<>>
    /\ \E w \in RaceWorkers : cw[w].pc = "write"

\* two writers of a response entry with different documents, and a reader whose
\* value is the document of neither
Witness_C35_Mixed ==
    /\ ckind = "response"
    /\ ~SameDocuments
    /\ \E w \in RaceWorkers : cw[w].pc = "hit" /\ cw[w].got \notin WrittenValues

(***************************************************************************)
(* Termination of the retry loop and of a run                              *)
(***************************************************************************)
\* generate_with_retry has made no more calls of generate_identifiers than
\* max_retries
CallsBounded == rcalls <= rmax

\* one sleep per failed call that another call follows: as many sleeps as
\* attempts given up, never more than calls, fewer than calls once the loop is
\* left, and after a sleep the loop has an attempt left
SleepsBetweenAttempts ==
    /\ Len(rsleeps) = rattempt
    /\ Len(rsleeps) <= rcalls
    /\ (rpc = "done" /\ rcalls > 0) => Len(rsleeps) < rcalls
    /\ (rpc = "loop" /\ rcalls > 0) => rattempt < rmax

\* generate_with_retry has been called and has not returned
RetryRunning == rpc \in {"loop", "try"}

\* generate_dataset has been called and has neither returned nor been stopped
RunUnderWay == bpc \in {"submit", "collect", "seq"}

\* at the end of a run every file was passed over, or processed and recorded by
\* the run, or processed and dropped without a record
EveryFileSettled ==
    bpc = "done" =>
        \A i \in BFiles :
           \/ bfut[i] = "skipped" /\ ~RecordedIn(bout, i)
           \/ bfut[i] = "collected" /\ i \notin bcall.failing /\ RecordedIn(bout, i)
           \/ bfut[i] = "collected" /\ i \in bcall.failing /\ ~RecordedIn(bout, i)

\* C36: for every max_retries, generate_with_retry makes at most max_retries
\* calls, sleeps only after a failed call that another call follows, and
\* returns; a run over a finite file list that is not stopped ends, with every
\* file recorded, passed over or dropped; every call that was started is taken
\* to return or fail
Thm_C36 ==
    /\ [](CallsBounded /\ SleepsBetweenAttempts /\ EveryFileSettled)
    /\ RetryRunning ~> (rpc = "done")
    /\ RunUnderWay ~> (bpc \in {"done", "killed"})

\* generate_with_retry has returned the empty response after max_retries = 3
\* failed calls and two sleeps
Witness_C36 ==
    /\ rpc = "done" /\ rmax = 3 /\ rcalls = 3
    /\ rlog = <<"fail", "fail", "fail">>
    /\ rsleeps = <<1, 2>>
    /\ rresult = EmptyResponse

\* generate_with_retry has returned without a call: max_retries = 0
Witness_C36_NoAttempt == rpc = "done" /\ rmax = 0 /\ rcalls = 0 /\ rsleeps = <<>>

\* a run has ended with a file passed over, a file recorded and a file dropped
Witness_C36_Run ==
    /\ bpc = "done"
    /\ \E i \in BFiles : bfut[i] = "skipped"
    /\ \E i \in BFiles : bfut[i] = "collected" /\ RecordedIn(bout, i)
    /\ \E i \in BFiles : bfut[i] = "collected" /\ i \in bcall.failing

====
